---- MODULE Spec2Model ----
(***************************************************************************)
(* A model of the AutoIt language-support extension: the call-context      *)
(* resolver and signature table of the signature-help provider             *)
(* (ai_signature.js), and the include walker and signature extractor of    *)
(* util.js.  Text is a sequence of one-character strings; a keyword such   *)
(* as "ByRef" is one element where only its spelling matters.              *)
(***************************************************************************)
EXTENDS Integers, Sequences, FiniteSets, Bags, TLC

VARIABLES
  disk,                 \* the file system: the text of every file that exists
  currentIncludeFiles,  \* ai_signature.js: the include list of the last rebuild
  includes,             \* ai_signature.js: the cached signatures of included files
  last,                 \* the last provideSignatureHelp call: its arguments and outcome
  code,       \* call context: the line's text up to the cursor
  inStr,      \* call context: for each character of code, is it inside a string literal
  open,       \* call context: the calls still open at the cursor, outermost first
  caller,     \* call context: what getCallInfo returned for code
  root,             \* include walk: the document getIncludeScripts was called with
  scriptsToSearch,  \* include walk: the destination array
  stack,            \* include walk: the activations of getIncludeScripts, outermost first
  reads,            \* include walk: the paths getIncludeText was called with, in order
  walking,          \* include walk: "idle", "running" or "done"
  declaration,      \* extractor: the parameters of the Func line being written
  signature,        \* extractor: what buildFunctionSignature made of the line, or Null
  openDoc,           \* symbols: the text of the open document, a sequence of lines
  symbols,           \* symbols: what the last provideDocumentSymbols pass over openDoc returned
  earlier,           \* symbols: what the pass before it over the same text returned
  processedSymbols,  \* symbols: the set the last pass of any document left behind
  lookup,            \* findFilepath: the last call, its arguments and what it returned
  symbolsCache,      \* workspace symbols: the module's cache
  scans,             \* workspace symbols: the bag of collections in flight
  events,            \* workspace symbols: file events the watcher has not delivered yet
  answer,            \* workspace symbols: what the last finished query returned
  definition,            \* go to definition: the provideDefinition call and its outcome
  diagnosticCollection,  \* diagnostics: the diagnostics set for each file
  checker,               \* diagnostics: the settings, the messages shown, the processes
  runners                \* ai_commands.js: the runners object and the runs being saved

callVars == <<code, inStr, open, caller>>

sigVars == <<disk, currentIncludeFiles, includes, last>>

walkVars == <<root, scriptsToSearch, stack, reads, walking>>

paramVars == <<declaration, signature>>

symVars == <<openDoc, symbols, earlier, processedSymbols>>

wsVars == <<symbolsCache, scans, events, answer>>

defVars == <<definition>>

diagVars == <<diagnosticCollection, checker>>

runVars == <<runners>>

vars == <<disk, currentIncludeFiles, includes, last, code, inStr, open, caller,
          root, scriptsToSearch, stack, reads, walking, declaration, signature,
          openDoc, symbols, earlier, processedSymbols, lookup,
          symbolsCache, scans, events, answer, definition, diagnosticCollection, checker,
          runners>>

\* JavaScript's null for "no function": a matched name is never empty.
Null == <<>>

(***************************************************************************)
(* Bounds of the model.                                                    *)
(***************************************************************************)
MaxLen == 12
MaxDepth == 4

(***************************************************************************)
(* Characters and sequence helpers.                                        *)
(***************************************************************************)
\* \w : the word characters and words the model writes
WordChars == {"a", "b", "c", "m", "L", "Array", "F", "A", "G", "H", "x", "y", "f", "d1", "d2", "1", "2", "5"}
Quotes == {"\"", "'"}
Parens == {"(", ")"}

Min(S) == CHOOSE k \in S : \A m \in S : k <= m
Max(S) == CHOOSE k \in S : \A m \in S : k >= m

\* The first index >= i of s whose character is in S, or 0.
RECURSIVE FirstIn(_, _, _)
FirstIn(s, i, S) ==
  IF i > Len(s) THEN 0 ELSE IF s[i] \in S THEN i ELSE FirstIn(s, i + 1, S)

\* The last index <= i of s whose character is in S, or 0.
RECURSIVE LastInFrom(_, _, _)
LastInFrom(s, i, S) ==
  IF i < 1 THEN 0 ELSE IF s[i] \in S THEN i ELSE LastInFrom(s, i - 1, S)

LastIn(s, S) == LastInFrom(s, Len(s), S)

Slice(s, a, b) == IF a > b \/ a < 1 THEN <<>> ELSE SubSeq(s, a, b)

\* The first index >= i of s whose character is not in S, or 0.
RECURSIVE FirstNotIn(_, _, _)
FirstNotIn(s, i, S) ==
  IF i > Len(s) THEN 0 ELSE IF s[i] \notin S THEN i ELSE FirstNotIn(s, i + 1, S)

(***************************************************************************)
(* The regular expressions of getParsableCode.  Each operator gives the    *)
(* index where the match that starts at i ends, or 0 when the expression   *)
(* does not match at i.                                                    *)
(***************************************************************************)
\* The first parenthesis at or after i is a ")": its index, else 0.
ClosedAt(s, i) ==
  LET k == FirstIn(s, i, Parens)
  IN IF k # 0 /\ s[k] = ")" THEN k ELSE 0

\* /\w+\([^()]*\)/ : a run of word characters, "(", no parenthesis, ")".
CallMatch(s, i) ==
  IF s[i] \notin WordChars THEN 0
  ELSE LET j == FirstNotIn(s, i, WordChars)
       IN IF j # 0 /\ s[j] = "(" THEN ClosedAt(s, j + 1) ELSE 0

\* /"[^"]*"/ and /'[^']*'/ : a quote q, up to the next q.
QuotedMatch(q, s, i) ==
  IF s[i] # q THEN 0 ELSE FirstIn(s, i + 1, {q})

\* /"[^"]*(?=$)/ and /'[^']*(?=$)/ : a quote q with no q after it, up to the end.
OpenQuoteMatch(q, s, i) ==
  IF s[i] = q /\ FirstIn(s, i + 1, {q}) = 0 THEN Len(s) ELSE 0

\* /\([^()]*\)/ : "(", no parenthesis, ")".
ParenMatch(s, i) ==
  IF s[i] # "(" THEN 0 ELSE ClosedAt(s, i + 1)

\* /\({2,}/ : two or more "(".
OpenRunMatch(s, i) ==
  IF s[i] = "(" /\ i < Len(s) /\ s[i + 1] = "("
  THEN LET j == FirstNotIn(s, i, {"("}) IN IF j = 0 THEN Len(s) ELSE j - 1
  ELSE 0

MatchEnd(re, s, i) ==
  CASE re = "call" -> CallMatch(s, i)
    [] re = "dq" -> QuotedMatch("\"", s, i)
    [] re = "sq" -> QuotedMatch("'", s, i)
    [] re = "dqOpen" -> OpenQuoteMatch("\"", s, i)
    [] re = "sqOpen" -> OpenQuoteMatch("'", s, i)
    [] re = "paren" -> ParenMatch(s, i)
    [] re = "openRun" -> OpenRunMatch(s, i)

\* String.prototype.replace with a global expression: the matches are taken left
\* to right without overlap, in ONE pass over s; what a replacement leaves behind
\* is not scanned again.
RECURSIVE ReplaceFrom(_, _, _, _)
ReplaceFrom(re, s, i, by) ==
  IF i > Len(s) THEN <<>>
  ELSE LET e == MatchEnd(re, s, i)
       IN IF e # 0 THEN by \o ReplaceFrom(re, s, e + 1, by)
          ELSE <<s[i]>> \o ReplaceFrom(re, s, i + 1, by)

ReplaceAll(re, s, by) == ReplaceFrom(re, s, 1, by)

(***************************************************************************)
(* ai_signature.js: the call-context resolver.                             *)
(***************************************************************************)
getParsableCode(c) ==
  LET r1 == ReplaceAll("call", c, <<>>)
      r2 == ReplaceAll("dq", r1, <<>>)
      r3 == ReplaceAll("sq", r2, <<>>)
      r4 == ReplaceAll("dqOpen", r3, <<>>)
      r5 == ReplaceAll("sqOpen", r4, <<>>)
      r6 == ReplaceAll("paren", r5, <<>>)
  IN ReplaceAll("openRun", r6, <<"(">>)

\* code.split('('): the segments between the open parentheses.
RECURSIVE SplitOn(_, _)
SplitOn(s, ch) ==
  LET k == FirstIn(s, 1, {ch})
  IN IF k = 0 THEN <<s>>
     ELSE <<Slice(s, 1, k - 1)>> \o SplitOn(Slice(s, k + 1, Len(s)), ch)

\* segment.match(/(.*)\b(\w+)/)[2]: the greedy (.*) leaves the last run of word
\* characters of the segment to (\w+); no word character, no match.
LastWord(seg) ==
  LET e == LastIn(seg, WordChars)
  IN IF e = 0 THEN Null
     ELSE LET nw == {k \in 1..e : seg[k] \notin WordChars}
              b == IF nw = {} THEN 1 ELSE Max(nw) + 1
          IN Slice(seg, b, e)

getCurrentFunction(c) ==
  LET parenSplit == SplitOn(c, "(")
  IN IF Len(parenSplit) > 1 THEN LastWord(parenSplit[Len(parenSplit) - 1]) ELSE Null

\* /(?!\B["'][^"']*),(?![^"']*['"]\B)/ at index k of s: a comma (the first
\* lookahead starts on the comma itself and never matches) that is not followed,
\* with no quote in between, by a quote that stands before a non-word character
\* or at the end.
CommaMatch(s, k) ==
  /\ s[k] = ","
  /\ LET q == FirstIn(s, k + 1, Quotes)
     IN ~(q # 0 /\ (q = Len(s) \/ s[q + 1] \notin WordChars))

countCommas(c) ==
  LET openParen == LastIn(c, {"("})
      \* lastIndexOf gives -1 when there is no "(", and slice(-1) the last character
      tail == IF openParen = 0 THEN Slice(c, Len(c), Len(c)) ELSE Slice(c, openParen, Len(c))
  IN Cardinality({k \in 1..Len(tail) : CommaMatch(tail, k)})

getCallInfo(codeAtPosition) ==
  LET cleanCode == getParsableCode(codeAtPosition)
  IN [func |-> getCurrentFunction(cleanCode), commas |-> countCommas(cleanCode)]

(***************************************************************************)
(* Script text.  A file's text is a sequence of lines and a line a         *)
(* sequence of characters and words; every expression below is anchored    *)
(* at a line start (^ with the m flag) and no "." crosses a line end.       *)
(***************************************************************************)
Blank == {" ", "\t"}
Au3 == ".au3"
\* [\w.] : the words and characters a library include name may hold
NameChars == WordChars \cup {Au3, "."}

\* Lower-case spelling of the keywords the model writes (the i flag).
Lower(w) ==
  CASE w \in {"Func", "func", "FUNC"} -> "func"
    [] w \in {"EndFunc", "endfunc", "ENDFUNC"} -> "endfunc"
    [] w \in {"#Region", "#region", "#REGION"} -> "#region"
    [] w \in {"ByRef", "byref", "BYREF"} -> "byref"
    [] OTHER -> w

IncludeLine(name) == <<"#include", " ", "\"">> \o name \o <<"\"">>
LibraryLine(name) == <<"#include", " ", "<">> \o name \o <<">">>
FuncLine(kw, name, params) == <<kw, " ">> \o name \o <<"(">> \o params \o <<")">>
Indented(line) == <<" ">> \o line

NoMatch == [found |-> FALSE, g1 |-> <<>>, g2 |-> <<>>, g3 |-> <<>>]

\* "#include", one blank, an opening quote or bracket, one or more characters
\* (greedy: up to the LAST closing character of the line), the closing character,
\* starting at index i of line l.
IncludeAt(l, i, opening, closing) ==
  IF /\ Len(l) >= i + 4
     /\ l[i] = "#include" /\ l[i + 1] \in Blank /\ l[i + 2] = opening
  THEN LET e == LastIn(l, {closing})
       IN IF e > i + 3 THEN [NoMatch EXCEPT !.found = TRUE, !.g1 = Slice(l, i + 3, e - 1)]
          ELSE NoMatch
  ELSE NoMatch

\* The index after the leading blanks of l (^\s* and ^[\t ]*).
AfterBlanks(l) ==
  LET k == FirstNotIn(l, 1, Blank) IN IF k = 0 THEN Len(l) + 1 ELSE k

\* util.js includePattern: /^#include\s"(.+)"/gm
includePattern(l) == IncludeAt(l, 1, "\"", "\"")

\* util.js getIncludeScripts: /^\s*#include\s"(.+)"/gm and /^\s*#include\s<(.+)>/gm
relativeInclude(l) == IncludeAt(l, AfterBlanks(l), "\"", "\"")
libraryInclude(l) == IncludeAt(l, AfterBlanks(l), "<", ">")

\* util.js libraryIncludePattern: /^#include\s+<([\w.]+\.au3)>/gm
libraryIncludePattern(l) ==
  IF Len(l) >= 2 /\ l[1] = "#include" /\ l[2] \in Blank
  THEN LET o == FirstNotIn(l, 2, Blank)
           c == FirstIn(l, 1, {">"})
       IN IF /\ o # 0 /\ l[o] = "<" /\ c > o + 1
             /\ \A k \in (o + 1)..(c - 1) : l[k] \in NameChars
             /\ l[c - 1] = Au3
          THEN [NoMatch EXCEPT !.found = TRUE, !.g1 = Slice(l, o + 1, c - 1)]
          ELSE NoMatch
  ELSE NoMatch

\* util.js functionDefinitionRegex (the volatile prefix is not written by the model):
\* /^[\t ]*(?:volatile[\t ]+)?Func[\t ]+((\w+)[\t ]*\((.*)\))/gim
\* g1 the label, g2 the name, g3 the text between "(" and the LAST ")" of the line.
functionDefinitionRegex(l) ==
  LET i == AfterBlanks(l)
  IN IF i + 1 <= Len(l) /\ Lower(l[i]) = "func" /\ l[i + 1] \in Blank
     THEN LET n == FirstNotIn(l, i + 1, Blank)
              o == IF n = 0 THEN 0 ELSE FirstNotIn(l, n, WordChars)
              p == IF o = 0 THEN 0 ELSE FirstNotIn(l, o, Blank)
              e == LastIn(l, {")"})
          IN IF n # 0 /\ o > n /\ p # 0 /\ l[p] = "(" /\ e > p
             THEN [found |-> TRUE, g1 |-> Slice(l, n, e), g2 |-> Slice(l, n, o - 1),
                   g3 |-> Slice(l, p + 1, e - 1)]
             ELSE NoMatch
     ELSE NoMatch

\* The matches of a global expression over a text, in text order.
RECURSIVE ExecAll(_, _, _)
ExecAll(re, text, i) ==
  IF i > Len(text) THEN <<>>
  ELSE LET m == CASE re = "includePattern" -> includePattern(text[i])
                  [] re = "libraryIncludePattern" -> libraryIncludePattern(text[i])
                  [] re = "relativeInclude" -> relativeInclude(text[i])
                  [] re = "libraryInclude" -> libraryInclude(text[i])
                  [] re = "functionDefinitionRegex" -> functionDefinitionRegex(text[i])
       IN (IF m.found THEN <<m>> ELSE <<>>) \o ExecAll(re, text, i + 1)

(***************************************************************************)
(* JavaScript objects: a mapping with its keys in insertion order, kept as *)
(* a sequence of [key, value] entries with distinct keys.                  *)
(***************************************************************************)
Keys(obj) == [k \in 1..Len(obj) |-> obj[k].key]
Has(obj, key) == \E k \in 1..Len(obj) : obj[k].key = key
Get(obj, key) == obj[CHOOSE k \in 1..Len(obj) : obj[k].key = key].value

\* obj[key] = value: an existing key keeps its place.
Put(obj, key, value) ==
  IF Has(obj, key)
  THEN [k \in 1..Len(obj) |-> IF obj[k].key = key THEN [key |-> key, value |-> value] ELSE obj[k]]
  ELSE Append(obj, [key |-> key, value |-> value])

\* Object.assign(target, source) and the spread { ...target, ...source }.
RECURSIVE ObjectAssign(_, _)
ObjectAssign(target, source) ==
  IF source = <<>> THEN target
  ELSE ObjectAssign(Put(target, source[1].key, source[1].value), Tail(source))

(***************************************************************************)
(* util.js: the function signature extractor.                              *)
(***************************************************************************)
\* String.prototype.trim
RECURSIVE TrimLeft(_)
TrimLeft(s) == IF s # <<>> /\ s[1] \in Blank THEN TrimLeft(Tail(s)) ELSE s
RECURSIVE TrimRight(_)
TrimRight(s) ==
  IF s # <<>> /\ s[Len(s)] \in Blank THEN TrimRight(Slice(s, 1, Len(s) - 1)) ELSE s
Trim(s) == TrimRight(TrimLeft(s))

\* .replace(/^ByRef\s*/, ''): the expression has no i flag.
StripByRef(s) ==
  IF s # <<>> /\ s[1] = "ByRef" THEN TrimLeft(Tail(s)) ELSE s

\* The first index >= i of s whose character is not in S, Len(s) + 1 if none.
After(s, i, S) == LET k == FirstNotIn(s, i, S) IN IF k = 0 THEN Len(s) + 1 ELSE k

\* getHeaderRegex(functionName), first line, tried at index i of line l:
\* ;\s*Name\s*\.+:\s+functionName\s*[\r\n]
NameFieldAt(l, i, functionName) ==
  LET a == After(l, i + 1, Blank)
      b == After(l, a + 1, Blank)
      c == After(l, b, {"."})
      d == After(l, c + 1, Blank)
      e == d + Len(functionName)
  IN /\ l[i] = ";" /\ a <= Len(l) /\ l[a] = "Name"
     /\ c > b /\ c <= Len(l) /\ l[c] = ":"
     /\ d > c + 1 /\ Slice(l, d, e - 1) = functionName
     /\ After(l, e, Blank) = Len(l) + 1

\* getHeaderRegex, second line, which starts the line after the first:
\* ;\s+Description\s*\.+:\s+(?<description>.+)[\r\n]
\* The value is the index the description starts at, 0 when the line does not match.
DescriptionField(l) ==
  LET a == After(l, 2, Blank)
      b == After(l, a + 1, Blank)
      c == After(l, b, {"."})
      d == After(l, c + 1, Blank)
  IN IF /\ l # <<>> /\ l[1] = ";" /\ a > 2 /\ a <= Len(l) /\ l[a] = "Description"
        /\ c > b /\ c <= Len(l) /\ l[c] = ":"
        /\ d > c + 1 /\ d <= Len(l)
     THEN d ELSE 0

\* fileText.match(headerRegex): the first match in text order, index its place
\* (a line and an index in it), MinusOne for null.
MinusOne == [line |-> 0, character |-> -1]
NoHeader == [index |-> MinusOne, description |-> <<>>]
\* The first of a set of places, in text order.
FirstPlace(hits) ==
  CHOOSE at \in hits : \A other \in hits :
    \/ at.line < other.line
    \/ at.line = other.line /\ at.character <= other.character
\* The places where the header of functionName matches.
HeaderPlaces(fileText, functionName) ==
  {at \in {[line |-> k, character |-> i] : k \in 1..(Len(fileText) - 2), i \in 1..MaxLen} :
     /\ at.character <= Len(fileText[at.line])
     /\ NameFieldAt(fileText[at.line], at.character, functionName)
     /\ DescriptionField(fileText[at.line + 1]) # 0}
\* The description group of a line the second line of the header matches.
DescriptionOf(l) == Slice(l, DescriptionField(l), Len(l))
FirstHeader(fileText, hits) ==
  IF hits = {} THEN NoHeader
  ELSE [index |-> FirstPlace(hits),
        description |-> DescriptionOf(fileText[FirstPlace(hits).line + 1])]
headerMatch(fileText, functionName) ==
  FirstHeader(fileText, HeaderPlaces(fileText, functionName))

\* new RegExp(`...(?:\\${paramEntry})...`) raises a SyntaxError unless the source
\* is an expression: "\" escapes the first character of paramEntry, or the ")" of
\* the group when paramEntry is empty, and every parenthesis after it opens or
\* closes a group.
RECURSIVE Balanced(_, _)
Balanced(s, depth) ==
  IF s = <<>> THEN depth = 0
  ELSE IF s[1] = "(" THEN Balanced(Tail(s), depth + 1)
  ELSE IF s[1] = ")" THEN depth > 0 /\ Balanced(Tail(s), depth - 1)
  ELSE Balanced(Tail(s), depth)
IsExpression(paramEntry) == paramEntry # <<>> /\ Balanced(Tail(paramEntry), 0)

\* parameterDocRegex tried at index i of line l, for a paramEntry that is a
\* variable ("$" and a word):
\* ;\s*(?:Parameters\s*\.+:)?\s*(?:\$word)\s+-\s(?<documentation>.+)
\* The value is the index the documentation starts at, 0 for no match.
ParamDocAt(l, i, paramEntry) ==
  LET a == After(l, i + 1, Blank)
      b == After(l, a + 1, Blank)
      c == After(l, b, {"."})
      n == IF a <= Len(l) /\ l[a] = "Parameters" /\ c > b /\ c <= Len(l) /\ l[c] = ":"
           THEN After(l, c + 1, Blank) ELSE a
      e == n + Len(paramEntry)
      m == After(l, e, Blank)
  IN IF /\ l[i] = ";" /\ Slice(l, n, e - 1) = paramEntry
        /\ m > e /\ m + 2 <= Len(l) /\ l[m] = "-" /\ l[m + 1] \in Blank
     THEN m + 2 ELSE 0

\* parameterDocRegex.exec(headerSubstring): the documentation of the first match
\* at or after the header, '' for none.  A paramEntry that is not a variable (a
\* word, where "\" makes an assertion or a class of the first letter, or text
\* with a further "$", which asserts the end of the text) matches nowhere in the
\* texts of the model.
ParamDocPlaces(text, paramEntry, headerIndex) ==
  {at \in {[line |-> k, character |-> i] : k \in headerIndex.line..Len(text), i \in 1..MaxLen} :
     /\ at.character <= Len(text[at.line])
     /\ at.line > headerIndex.line \/ at.character >= headerIndex.character
     /\ ParamDocAt(text[at.line], at.character, paramEntry) # 0}
\* The documentation group of the match at index i of line l.
DocumentationAt(l, i, paramEntry) == Slice(l, ParamDocAt(l, i, paramEntry), Len(l))
FirstParamDoc(text, paramEntry, hits) ==
  IF hits = {} THEN <<>>
  ELSE DocumentationAt(text[FirstPlace(hits).line], FirstPlace(hits).character, paramEntry)
paramDocMatch(text, paramEntry, headerIndex) ==
  IF Len(paramEntry) # 2 \/ paramEntry[1] # "$" THEN <<>>
  ELSE FirstParamDoc(text, paramEntry, ParamDocPlaces(text, paramEntry, headerIndex))

\* extractParamDocumentation: '' without a header; threw when new RegExp raises.
extractParamDocumentation(text, paramEntry, headerIndex) ==
  IF headerIndex = MinusOne THEN [threw |-> FALSE, documentation |-> <<>>]
  ELSE IF ~IsExpression(paramEntry) THEN [threw |-> TRUE, documentation |-> <<>>]
  ELSE [threw |-> FALSE, documentation |-> paramDocMatch(text, paramEntry, headerIndex)]

\* The loop of getParams; a SyntaxError of extractParamDocumentation ends it.
RECURSIVE ParamsFrom(_, _, _, _, _)
ParamsFrom(paramList, i, params, text, headerIndex) ==
  IF i > Len(paramList) THEN [threw |-> FALSE, params |-> params]
  ELSE LET paramEntry == StripByRef(Trim(SplitOn(paramList[i], "=")[1]))
           paramDoc == extractParamDocumentation(text, paramEntry, headerIndex)
       IN IF paramDoc.threw THEN [threw |-> TRUE, params |-> <<>>]
          ELSE ParamsFrom(paramList, i + 1,
                          Put(params, paramEntry,
                              [label |-> paramEntry, documentation |-> paramDoc.documentation]),
                          text, headerIndex)

getParams(paramText, text, headerIndex) ==
  IF paramText = <<>> THEN [threw |-> FALSE, params |-> <<>>]
  ELSE ParamsFrom(SplitOn(paramText, ","), 1, <<>>, text, headerIndex)

\* buildFunctionSignature: threw when getParams raised, else the signature.  The
\* documentation is the header's description, "\r" and the file, or the file.
SignatureWith(functionMatch, fileName, header, params) ==
  IF params.threw THEN [threw |-> TRUE]
  ELSE [threw |-> FALSE,
        functionName |-> functionMatch.g2,
        functionObject |->
          [label |-> functionMatch.g1,
           documentation |->
             (IF header.index = MinusOne THEN <<>> ELSE header.description \o <<"\r">>)
               \o <<"Included from", fileName>>,
           params |-> params.params]]
SignatureUnder(functionMatch, fileText, fileName, header) ==
  SignatureWith(functionMatch, fileName, header,
                getParams(functionMatch.g3, fileText, header.index))
buildFunctionSignature(functionMatch, fileText, fileName) ==
  SignatureUnder(functionMatch, fileText, fileName,
                 headerMatch(fileText, functionMatch.g2))

\* A loop that keeps the first definition of a name.
RECURSIVE KeepFirst(_, _, _, _)
KeepFirst(matches, i, fileText, fileName) ==
  IF i = 0 THEN <<>>
  ELSE LET functionData == buildFunctionSignature(matches[i], fileText, fileName)
           earlierOnes == KeepFirst(matches, i - 1, fileText, fileName)
       IN IF Has(earlierOnes, functionData.functionName) THEN earlierOnes
          ELSE Put(earlierOnes, functionData.functionName, functionData.functionObject)

\* The loop of getIncludeData and getLocalSigs: a later definition of a name
\* overwrites an earlier one.
RECURSIVE SignaturesOf(_, _, _, _)
SignaturesOf(matches, i, fileText, fileName) ==
  IF i = 0 THEN <<>>
  ELSE LET functionData == buildFunctionSignature(matches[i], fileText, fileName)
       IN Put(SignaturesOf(matches, i - 1, fileText, fileName),
              functionData.functionName, functionData.functionObject)

(***************************************************************************)
(* The file system and ai_config.js findFilepath.  A path is [dir, file];  *)
(* a name as an include directive gives it has dir "".  The editor gives   *)
(* the document's directory with a lower-case first letter, getIncludePath *)
(* writes it in upper case, and the file system takes either spelling.     *)
(***************************************************************************)
WsDir == "ws"
LibDir == "Lib"
UsrDir == "Usr"
AltDir == "Alt"
\* includePath.charAt(0).toUpperCase() + includePath.slice(1)
UpperFirst(d) == IF d = "ws" THEN "Ws" ELSE d
\* the spelling the file system keeps a directory under
Canon(path) == [path EXCEPT !.dir = IF @ = "Ws" THEN "ws" ELSE @]
\* config.includePaths: the AutoIt library directory first
includePaths == <<LibDir, UsrDir, AltDir>>

Rel(name) == [dir |-> "", file |-> name]
At(d, name) == [dir |-> d, file |-> name]
\* findFilepath's false
NotFound == [dir |-> "", file |-> <<>>]

existsSync(path) == Canon(path) \in DOMAIN disk
getIncludeText(filePath) == disk[Canon(filePath)]

\* A search in the configured order whatever library is.
ConfiguredOrder(file, library) ==
  LET hits == {k \in 1..Len(includePaths) :
                 file.dir = "" /\ existsSync(At(includePaths[k], file.file))}
  IN IF hits = {} THEN NotFound ELSE At(includePaths[Min(hits)], file.file)
findFilepath(file, library) ==
  LET order == IF library THEN includePaths ELSE Tail(includePaths) \o <<Head(includePaths)>>
      hits == {k \in 1..Len(order) : file.dir = "" /\ existsSync(At(order[k], file.file))}
  IN IF hits = {} THEN NotFound ELSE At(order[Min(hits)], file.file)

\* fileOrPath.startsWith(':', 1): an absolute path is kept, a name is joined to
\* the document's directory; the first letter is then written in upper case.
getIncludePath(fileOrPath, document) ==
  LET includePath == IF fileOrPath.dir # "" THEN fileOrPath
                     ELSE At(document.fileName.dir, fileOrPath.file)
  IN [includePath EXCEPT !.dir = UpperFirst(@)]

\* readFileSync(false) raises: threw.
getIncludeData(fileName, doc) ==
  LET first == getIncludePath(fileName, doc)
      filePath == IF existsSync(first) THEN first ELSE findFilepath(fileName, FALSE)
  IN IF filePath = NotFound THEN [threw |-> TRUE, functions |-> <<>>]
     ELSE LET fileData == getIncludeText(filePath)
              matches == ExecAll("functionDefinitionRegex", fileData, 1)
          IN [threw |-> FALSE,
              functions |-> SignaturesOf(matches, Len(matches), fileData, fileName)]

(***************************************************************************)
(* ai_signature.js: the merged signature table.                            *)
(***************************************************************************)
Fn(c) == <<c>>
BuiltIn(name) ==
  [key |-> name, value |-> [label |-> name \o <<"(", ")">>, documentation |-> <<"built-in">>,
                            params |-> <<>>]]
\* ./signatures
defaultSigs == <<BuiltIn(Fn("F")), BuiltIn(Fn("A"))>>
\* ./constants: the library files the built-in signatures already cover
DEFAULT_UDFS == {<<"Array">>}

\* Array.prototype.indexOf
indexOf(arr, v) ==
  LET K == {k \in 1..Len(arr) : arr[k] = v} IN IF K = {} THEN -1 ELSE Min(K) - 1

\* Two readings of "the lists match" that arraysMatch is not: every element of
\* arr1 occurs in arr2, and the lists are equal element by element.
SameMembers(arr1, arr2) ==
  Len(arr1) = Len(arr2) /\ \A k \in 1..Len(arr1) : indexOf(arr2, arr1[k]) >= 0
SameOrder(arr1, arr2) == arr1 = arr2

arraysMatch(arr1, arr2) ==
  Len(arr1) = Len(arr2) /\ \E k \in 1..Len(arr1) : indexOf(arr2, arr1[k]) <= 0

\* String.prototype.replace with a string pattern: the first occurrence only.
RemoveFirst(s, w) ==
  LET k == FirstIn(s, 1, {w})
  IN IF k = 0 THEN s ELSE Slice(s, 1, k - 1) \o Slice(s, k + 1, Len(s))

\* includesCheck.forEach(script => Object.assign(includes, getIncludeData(script, doc)))
\* stops at the first script that raises, with what was assigned so far.
RECURSIVE HarvestQuoted(_, _, _, _)
HarvestQuoted(scripts, i, acc, doc) ==
  IF i > Len(scripts) THEN [inc |-> acc, threw |-> FALSE]
  ELSE LET newIncludes == getIncludeData(Rel(scripts[i]), doc)
       IN IF newIncludes.threw THEN [inc |-> acc, threw |-> TRUE]
          ELSE HarvestQuoted(scripts, i + 1, ObjectAssign(acc, newIncludes.functions), doc)

RECURSIVE HarvestLibrary(_, _, _, _)
HarvestLibrary(libs, i, acc, doc) ==
  IF i > Len(libs) THEN [inc |-> acc, threw |-> FALSE]
  ELSE LET filename == RemoveFirst(libs[i].g1, Au3)
           fullPath == findFilepath(Rel(libs[i].g1), TRUE)
       IN IF filename \in DEFAULT_UDFS \/ fullPath = NotFound
          THEN HarvestLibrary(libs, i + 1, acc, doc)
          ELSE LET newData == getIncludeData(fullPath, doc)
               IN IF newData.threw THEN [inc |-> acc, threw |-> TRUE]
                  ELSE HarvestLibrary(libs, i + 1, ObjectAssign(acc, newData.functions), doc)

getIncludesFromText(text) ==
  LET m == ExecAll("includePattern", text, 1) IN [k \in 1..Len(m) |-> m[k].g1]

\* The library includes, read on every call and added to what the cache holds.
HarvestAll(doc, libraryIncludes, rebuild, includesCheck, quoted) ==
  IF quoted.threw
  THEN [currentIncludeFiles |-> currentIncludeFiles, includes |-> quoted.inc,
        threw |-> TRUE, rebuilt |-> rebuild]
  ELSE [currentIncludeFiles |-> IF rebuild THEN includesCheck ELSE currentIncludeFiles,
        rebuilt |-> rebuild] @@
       [includes |-> HarvestLibrary(libraryIncludes, 1, quoted.inc, doc).inc,
        threw |-> FALSE]

\* if (!arraysMatch(includesCheck, currentIncludeFiles)): the cache is emptied and
\* filled from the quoted includes; currentIncludeFiles is set after the loop.
Rebuild(doc, libraryIncludes, rebuild, includesCheck) ==
  HarvestAll(doc, libraryIncludes, rebuild, includesCheck,
             IF rebuild THEN HarvestQuoted(includesCheck, 1, <<>>, doc)
             ELSE [inc |-> includes, threw |-> FALSE])

CheckIncludes(doc, libraryIncludes, includesCheck) ==
  Rebuild(doc, libraryIncludes, ~arraysMatch(includesCheck, currentIncludeFiles),
          includesCheck)

\* The module variables after getIncludes(doc), what it returned, and whether it
\* raised or rebuilt the cache.
getIncludes(doc) ==
  CheckIncludes(doc, ExecAll("libraryIncludePattern", doc.text, 1),
                getIncludesFromText(doc.text))

getLocalSigs(doc) ==
  LET matches == ExecAll("functionDefinitionRegex", doc.text, 1)
  IN SignaturesOf(matches, Len(matches), doc.text, doc.fileName)

NoHelp == [signature |-> Null, activeParameter |-> 0]
NoCall == [called |-> FALSE, threw |-> FALSE, rebuilt |-> FALSE, allSignatures |-> <<>>,
           result |-> NoHelp]

\* provideSignatureHelp(document, position): the cache is read and written only
\* when the cursor is inside a call.
provideSignatureHelp(document, position) ==
  LET codeAtPosition == Slice(document.text[position.line], 1, position.character)
      input(callInfo) ==
        [document |-> document, position |-> position, func |-> callInfo.func,
         before |-> currentIncludeFiles]
  IN \E callInfo \in {getCallInfo(codeAtPosition)} :
       IF callInfo.func = Null
       THEN /\ last' = input(callInfo) @@ NoCall
            /\ UNCHANGED <<currentIncludeFiles, includes>>
       ELSE \E got \in {getIncludes(document)} :
            \E allSignatures \in
                 {IF got.threw THEN <<>>
                  ELSE ObjectAssign(ObjectAssign(defaultSigs, got.includes),
                                    getLocalSigs(document))} :
              /\ currentIncludeFiles' = got.currentIncludeFiles
              /\ includes' = got.includes
              /\ last' = input(callInfo) @@
                   [called |-> TRUE, threw |-> got.threw, rebuilt |-> got.rebuilt,
                    allSignatures |-> allSignatures,
                    result |-> IF Has(allSignatures, callInfo.func)
                               THEN [signature |-> Get(allSignatures, callInfo.func),
                                     activeParameter |-> callInfo.commas]
                               ELSE NoHelp]

\* No symbol pass has run, no file has been looked up, and the workspace-symbol
\* cache is as the module creates it.
NotRun == [ran |-> FALSE, result |-> <<>>, after |-> {}]
SymIdle == openDoc = <<>> /\ symbols = NotRun /\ earlier = NotRun /\ processedSymbols = {}
FindIdle == lookup = [called |-> FALSE]
NoAnswer == [given |-> FALSE]
WsIdle ==
  /\ symbolsCache = [value |-> "array", symbols |-> <<>>, stale |-> FALSE]
  /\ scans = EmptyBag
  /\ events = 0
  /\ answer = NoAnswer
\* provideDefinition has not been called.
DefIdle == definition = [stage |-> "idle"]
\* extension.js as activated: an empty collection, diagnostics enabled, the check
\* path of the default settings, checkPathPrev undefined, nothing shown or started;
\* no check has finished and the editor has closed no document.
CheckerPath == [dir |-> "AutoIt3", file |-> <<"Au3Check.exe">>]
NewChecker ==
  [build |-> "checkPathPrev", enableDiagnostics |-> TRUE, checkPath |-> CheckerPath,
   checkPathPrev |-> [dir |-> "", file |-> <<>>], shown |-> <<>>, processes |-> <<>>,
   started |-> 0, resolved |-> [uri |-> <<>>, consoleOutput |-> <<>>],
   finished |-> [uri \in {} |-> 0], closed |-> {}]
NoDiagnostics == [uri \in {} |-> <<>>]
DiagIdle == diagnosticCollection = NoDiagnostics /\ checker = NewChecker
\* ai_commands.js as loaded: no script has been run.
NoRunners == [id |-> 0, list |-> <<>>, saving |-> 0, spawned |-> 0, exits |-> 0,
              reuse |-> FALSE, multiOutputMaxFinished |-> 0]
RunIdle == runners = NoRunners
RestIdle == SymIdle /\ FindIdle /\ WsIdle /\ DefIdle /\ DiagIdle /\ RunIdle

\* No declaration is being written.
ParamsIdle ==
  declaration = [keyword |-> "Func", params |-> <<>>, header |-> FALSE] /\ signature = Null

\* No walk has been asked for.
WalkIdle ==
  /\ root = [fileName |-> At(WsDir, <<>>), text |-> <<>>]
  /\ scriptsToSearch = <<>>
  /\ stack = <<>>
  /\ reads = <<>>
  /\ walking = "idle"

(***************************************************************************)
(* The documents and files of the signature model.                         *)
(***************************************************************************)
MaxIncludes == 2

FileName(w) == <<w, Au3>>
IncludeNames == {FileName("a"), FileName("b")}
Declares(names) == [k \in 1..Len(names) |-> FuncLine("Func", Fn(names[k]), <<"$", "x">>)]
\* A second definition of a name, with two parameters.
Redeclares(name) == <<FuncLine("Func", Fn(name), <<"$", "x", ",", "$", "y">>)>>

\* a.au3, b.au3 and c.au3 lie beside the documents, L.au3 and Array.au3 in the
\* library; a.au3 declares G twice; b.au3 includes c.au3, which alone declares H;
\* no m.au3 exists anywhere.
SigDisk ==
  (At(WsDir, FileName("a")) :> Declares(<<"G", "F">>) \o Redeclares("G")) @@
  (At(WsDir, FileName("b")) :> <<IncludeLine(FileName("c"))>> \o Declares(<<"G", "A">>)) @@
  (At(WsDir, FileName("c")) :> Declares(<<"H">>)) @@
  (At(LibDir, FileName("L")) :> Declares(<<"A", "G">>)) @@
  (At(LibDir, FileName("Array")) :> Declares(<<"F">>))

IncludeLists == UNION {[1..n -> IncludeNames] : n \in 0..MaxIncludes}
IncludeLines(list) == [k \in 1..Len(list) |-> IncludeLine(list[k])]
OtherLines ==
  {<<>>, <<LibraryLine(FileName("L"))>>, <<LibraryLine(FileName("Array"))>>,
   <<IncludeLine(FileName("m"))>>, <<Indented(IncludeLine(FileName("b")))>>}
InCall == <<"G", "(", "1", ",">>
OutsideCall == <<"x">>

\* A document: its include directives, its other lines, its functions, and the
\* line the cursor is at the end of.
Document(fileName, list, other, local, cursorLine) ==
  [fileName |-> fileName,
   text |-> IncludeLines(list) \o other \o local \o <<cursorLine>>]
EndOf(document) ==
  [line |-> Len(document.text), character |-> Len(document.text[Len(document.text)])]

\* The states the two open documents can be edited into: d1.au3 declares F
\* itself, twice, d2.au3 declares nothing and holds quoted includes only.
Documents ==
  {Document(At(WsDir, FileName("d1")), list, other, Declares(<<"F">>) \o Redeclares("F"),
            InCall) :
     list \in IncludeLists, other \in OtherLines}
  \cup {Document(At(WsDir, FileName("d2")), list, <<>>, <<>>, InCall) :
     list \in IncludeLists}
  \cup {Document(At(WsDir, FileName("d2")), <<FileName("a")>>, <<>>, <<>>, OutsideCall)}

\* No signature help has been asked for: the cache is as the module creates it.
SigIdle ==
  /\ disk = SigDisk
  /\ currentIncludeFiles = <<>>
  /\ includes = <<>>
  /\ last = [document |-> Document(At(WsDir, FileName("d1")), <<>>, <<>>, <<>>, <<"x">>),
             position |-> [line |-> 1, character |-> 0], func |-> Null,
             before |-> <<>>] @@ NoCall

\* No text has been typed.
CallIdle == code = <<>> /\ inStr = <<>> /\ open = <<>> /\ caller = getCallInfo(<<>>)

SigInit == SigIdle /\ CallIdle /\ WalkIdle /\ ParamsIdle /\ RestIdle

\* Signature help is asked for at the end of a document in whatever state its
\* text is in by then.
ProvideSignatureHelp ==
  /\ \E document \in Documents : provideSignatureHelp(document, EndOf(document))
  /\ UNCHANGED <<disk, callVars, walkVars, paramVars, symVars, lookup, wsVars, defVars, diagVars, runVars>>

SigNext == ProvideSignatureHelp

SpecSig == SigInit /\ [][SigNext]_vars

Range(s) == {s[k] : k \in 1..Len(s)}
Count(s, v) == Cardinality({k \in 1..Len(s) : s[k] = v})
IsPermutation(s, u) == Len(s) = Len(u) /\ \A v \in Range(s) \cup Range(u) : Count(s, v) = Count(u, v)

\* What the last call's document says, read again from its text.
LastText == last.document.text
HasDirective(line) == \E k \in 1..Len(line) : line[k] = "#include"
NoIncludeDirective(text) == \A k \in 1..Len(text) : ~HasDirective(text[k])
\* Every include directive starts its line, as both expressions of getIncludes expect.
DirectivesStartLines(text) == \A k \in 1..Len(text) : HasDirective(text[k]) => text[k][1] = "#include"
LastIncludesCheck == getIncludesFromText(LastText)
LocalSigs == getLocalSigs(last.document)
FuncNames == {Fn("F"), Fn("G"), Fn("A")}

\* The signatures of name in the files the document includes: the quoted ones, and
\* the bracketed ones outside the default library list that are found.
IncludedFileSpecs(text) ==
  {Rel(n) : n \in Range(getIncludesFromText(text))} \cup
  ({findFilepath(Rel(m.g1), TRUE) : m \in
      {x \in Range(ExecAll("libraryIncludePattern", text, 1)) :
         RemoveFirst(x.g1, Au3) \notin DEFAULT_UDFS}} \ {NotFound})
IncludedSigs(name) ==
  {Get(d.functions, name) : d \in
     {x \in {getIncludeData(f, last.document) : f \in IncludedFileSpecs(LastText)} :
        ~x.threw /\ Has(x.functions, name)}}

\* C1: for every function name the signature used is the document's own if the
\* document defines the name, otherwise one harvested from the document's
\* included files if one of them defines it, otherwise the built-in one.
C1_LocalThenIncludedThenBuiltIn ==
  (last.called /\ ~last.threw /\ DirectivesStartLines(LastText)) =>
    \A name \in FuncNames :
      IF Has(LocalSigs, name)
        THEN Has(last.allSignatures, name) /\ Get(last.allSignatures, name) = Get(LocalSigs, name)
      ELSE IF IncludedSigs(name) # {}
        THEN Has(last.allSignatures, name) /\ Get(last.allSignatures, name) \in IncludedSigs(name)
      ELSE IF Has(defaultSigs, name)
        THEN Has(last.allSignatures, name) /\ Get(last.allSignatures, name) = Get(defaultSigs, name)
      ELSE ~Has(last.allSignatures, name)

\* C2: after any earlier queries, a query on a document with no #include
\* directive uses the built-in signatures overlaid with the document's own, and
\* nothing from an included file.
C2_NoIncludeNoIncluded ==
  (last.called /\ NoIncludeDirective(LastText)) =>
    /\ ~last.threw
    /\ last.allSignatures = ObjectAssign(defaultSigs, LocalSigs)

C2_Witness ==
  /\ last.called /\ NoIncludeDirective(LastText)
  /\ last.before # <<>>
  /\ LocalSigs # <<>>

\* C5: whenever the set of quoted include paths of the text differs from the set
\* recorded at the last rebuild, getIncludes discards the cached signatures and
\* rebuilds them.
C5_ChangedSetRebuilds ==
  (last.called /\ Range(LastIncludesCheck) # Range(last.before)) => last.rebuilt

\* The same when the number of quoted includes changed too.
C5_ChangedLengthRebuilds ==
  (last.called /\ Len(LastIncludesCheck) # Len(last.before)) => last.rebuilt

\* C6: a change that only reorders the include directives (the new list is a
\* permutation of the list of the last rebuild) triggers no rebuild.
C6_ReorderNoRebuild ==
  (last.called /\ LastIncludesCheck # last.before
     /\ IsPermutation(LastIncludesCheck, last.before)) => ~last.rebuilt

C6_Witness ==
  /\ last.called /\ LastIncludesCheck # last.before
  /\ IsPermutation(LastIncludesCheck, last.before)
  /\ ~last.rebuilt

\* The file an included signature was harvested from: its documentation ends
\* with the name getIncludeData was given.
HarvestedFrom(entry) == entry.value.documentation[Len(entry.value.documentation)]

\* C34: after any queries on the open documents, every included signature used
\* for the last query was harvested from a file that an include directive of
\* that query's document names now: none is left from another document's
\* includes or from a directive the text no longer has.
C34_OnlyOwnIncludes ==
  (last.called /\ ~last.threw) =>
    \A k \in 1..Len(includes) : HarvestedFrom(includes[k]) \in IncludedFileSpecs(LastText)

(***************************************************************************)
(* The editor: the user types a line, and signature help is asked for at   *)
(* the cursor after each piece typed.  open and inStr record what was      *)
(* typed (the calls still open, and which characters are string content);  *)
(* the program sees only code.                                             *)
(***************************************************************************)
CallNames == {"F", "A"}
StringContents == {<<",">>, <<"(">>, <<")">>, <<"x">>, <<"\"">>, <<"'">>}

LastChar == IF Len(code) = 0 THEN "" ELSE code[Len(code)]
CursorInString == IF Len(code) = 0 THEN FALSE ELSE inStr[Len(code)]
ExpectsArgument == IF Len(code) = 0 THEN TRUE ELSE ~CursorInString /\ LastChar \in {"(", ","}
Room(n) == Len(code) + n <= MaxLen

Typed(text, mask) ==
  /\ code' = code \o text
  /\ inStr' = inStr \o mask
  /\ caller' = getCallInfo(code \o text)
  /\ UNCHANGED <<sigVars, walkVars, paramVars, symVars, lookup, wsVars, defVars, diagVars, runVars>>

CallInit == CallIdle /\ SigIdle /\ WalkIdle /\ ParamsIdle /\ RestIdle

\* A function name and its open parenthesis.
TypeOpenCall(n) ==
  /\ ExpectsArgument /\ Room(2) /\ Len(open) < MaxDepth
  /\ Typed(<<n, "(">>, <<FALSE, FALSE>>)
  /\ open' = Append(open, [func |-> <<n>>, commas |-> 0, height |-> 0])

\* A plain argument.
TypeAtom ==
  /\ ExpectsArgument /\ Len(open) > 0 /\ Room(1)
  /\ Typed(<<"1">>, <<FALSE>>)
  /\ UNCHANGED open

\* A complete string literal in quotes q.
TypeString(q, content) ==
  /\ ExpectsArgument /\ Len(open) > 0 /\ Room(3)
  /\ content # <<q>>
  /\ Typed(<<q>> \o content \o <<q>>, <<FALSE, TRUE, FALSE>>)
  /\ UNCHANGED open

\* A string literal whose closing quote is not typed yet: the cursor is in it.
TypeOpenString(q, content) ==
  /\ ExpectsArgument /\ Len(open) > 0 /\ Room(2)
  /\ content # <<q>>
  /\ Typed(<<q>> \o content, <<FALSE, TRUE>>)
  /\ UNCHANGED open

\* The comma after an argument of the innermost open call.
TypeComma ==
  /\ ~ExpectsArgument /\ ~CursorInString /\ Len(open) > 0 /\ Room(1)
  /\ Typed(<<",">>, <<FALSE>>)
  /\ open' = [open EXCEPT ![Len(open)].commas = @ + 1]

\* The parenthesis that closes the innermost open call.
TypeClose ==
  /\ ~CursorInString /\ Len(open) > 0 /\ Room(1)
  /\ LastChar # ","
  /\ Typed(<<")">>, <<FALSE>>)
  /\ LET n == Len(open)
         rest == SubSeq(open, 1, n - 1)
     IN open' = IF n = 1 THEN <<>>
                ELSE [rest EXCEPT ![n - 1].height =
                        IF @ > open[n].height THEN @ ELSE open[n].height + 1]

CallNext ==
  \/ \E n \in CallNames : TypeOpenCall(n)
  \/ TypeAtom
  \/ \E q \in Quotes, content \in StringContents : TypeString(q, content)
  \/ \E q \in Quotes, content \in StringContents : TypeOpenString(q, content)
  \/ TypeComma
  \/ TypeClose

SpecCall == CallInit /\ [][CallNext]_vars

\* What the typed text means at the cursor: the innermost open call and the
\* number of its arguments already closed by a comma.
Enclosing == open[Len(open)]
NoStrings == \A k \in 1..Len(code) : code[k] \notin Quotes
OnlyCallOpen == Len(open) = 1

\* C7: with every call but the enclosing one closed, at any nesting depth of the
\* closed calls and with no string literal in the text, getCallInfo reports the
\* enclosing call and the number of commas at its own argument level.
C7_NestedClosedCalls ==
  (OnlyCallOpen /\ NoStrings) =>
    (caller.func = Enclosing.func /\ caller.commas = Enclosing.commas)

\* The same with the closed calls nested at most two deep.
C7_ShallowClosedCalls ==
  (OnlyCallOpen /\ NoStrings /\ Enclosing.height <= 2) =>
    (caller.func = Enclosing.func /\ caller.commas = Enclosing.commas)

\* The text holds nothing but the enclosing call and complete string literals,
\* none of them with a parenthesis in it.
OnlyStringArguments ==
  /\ OnlyCallOpen
  /\ ~CursorInString
  /\ Cardinality({k \in 1..Len(code) : code[k] = "("}) = 1
  /\ \A k \in 1..Len(code) : code[k] = "1" \/ (inStr[k] => code[k] \notin Parens)

\* C8: commas inside complete string literals among the arguments of the
\* enclosing call are not counted: the argument index is the number of commas
\* outside string literals between the call's open parenthesis and the cursor.
C8_StringCommasNotCounted ==
  OnlyStringArguments => caller.commas = Enclosing.commas

\* The same when no literal holds a quote character of the other kind.
C8_PlainStringCommasNotCounted ==
  (OnlyStringArguments /\ \A k \in 1..Len(code) : inStr[k] => code[k] \notin Quotes)
    => caller.commas = Enclosing.commas

\* code with the character at k replaced by a letter.
WithLetterAt(k) == [code EXCEPT ![k] = "x"]

\* C9: a parenthesis inside a string literal, complete or unterminated at the
\* cursor, does not change the call context: getCallInfo returns what it returns
\* for the same text with that character replaced by a letter.
C9_ParenInStringIgnored ==
  \A k \in 1..Len(code) :
    (inStr[k] /\ code[k] \in Parens) => caller = getCallInfo(WithLetterAt(k))

(***************************************************************************)
(* util.js getIncludeScripts, one loop iteration per step.  An activation  *)
(* is [docText, loop, next]: the text it scans, which of its two loops it  *)
(* is in, and the index of the match its next exec returns.                *)
(***************************************************************************)
MaxDirectives == 2
MaxStack == 6

\* A check that looks at the most recent entry only.
ListedLast(list, includeFile) == Len(list) > 0 /\ list[Len(list)] = includeFile
\* scriptsToSearch.indexOf(includeFile) === -1, negated
Listed(list, includeFile) == indexOf(list, includeFile) # -1

\* The walk touches nothing but its own arrays; it reads the file system.
WalkOnly ==
  UNCHANGED <<disk, currentIncludeFiles, includes, last, callVars, paramVars,
              symVars, lookup, wsVars, defVars, diagVars, runVars>>

Activation(docText) == [docText |-> docText, loop |-> "relative", next |-> 1]
Top == stack[Len(stack)]
Found == ExecAll(IF Top.loop = "relative" THEN "relativeInclude" ELSE "libraryInclude",
                 Top.docText, 1)
Advanced == [stack EXCEPT ![Len(stack)].next = @ + 1]

\* The body of both loops for the resolved includeFile: a file found and not yet
\* listed is listed, read and walked; then the next match is taken.
Visit(includeFile) ==
  IF includeFile # NotFound /\ ~Listed(scriptsToSearch, includeFile)
  THEN /\ Len(stack) < MaxStack
       /\ scriptsToSearch' = Append(scriptsToSearch, includeFile)
       /\ reads' = Append(reads, includeFile)
       /\ stack' = Append(Advanced, Activation(getIncludeText(includeFile)))
  ELSE /\ stack' = Advanced
       /\ UNCHANGED <<scriptsToSearch, reads>>

\* getIncludeScripts is entered for a document with an empty destination array.
EnterWalk(document) ==
  /\ walking = "idle"
  /\ root' = document
  /\ scriptsToSearch' = <<>>
  /\ stack' = <<Activation(document.text)>>
  /\ walking' = "running"
  /\ UNCHANGED reads

\* The walk of one document into an empty destination array.
GetIncludeScripts(document) ==
  /\ EnterWalk(document)
  /\ WalkOnly

RelativeStep ==
  /\ walking = "running" /\ Top.loop = "relative" /\ Top.next <= Len(Found)
  /\ LET name == Rel(Found[Top.next].g1)
         beside == getIncludePath(name, root)
     IN Visit(IF existsSync(beside) THEN beside ELSE findFilepath(name, FALSE))
  /\ UNCHANGED <<root, walking>>
  /\ WalkOnly

\* relativeInclude.exec gave null: the library loop starts.
RelativeEnd ==
  /\ walking = "running" /\ Top.loop = "relative" /\ Top.next > Len(Found)
  /\ stack' = [stack EXCEPT ![Len(stack)] = [@ EXCEPT !.loop = "library", !.next = 1]]
  /\ UNCHANGED <<root, scriptsToSearch, reads, walking>>
  /\ WalkOnly

LibraryStep ==
  /\ walking = "running" /\ Top.loop = "library" /\ Top.next <= Len(Found)
  /\ Visit(findFilepath(Rel(Found[Top.next].g1), FALSE))
  /\ UNCHANGED <<root, walking>>
  /\ WalkOnly

\* libraryInclude.exec gave null: the activation returns.
Return ==
  /\ walking = "running" /\ Top.loop = "library" /\ Top.next > Len(Found)
  /\ stack' = SubSeq(stack, 1, Len(stack) - 1)
  /\ walking' = IF Len(stack) = 1 THEN "done" ELSE "running"
  /\ UNCHANGED <<root, scriptsToSearch, reads>>
  /\ WalkOnly

\* The files of the walk: a.au3 and b.au3 beside the document, a.au3 with up to
\* MaxDirectives include directives; c.au3 in the user include directory, which
\* includes a.au3 and itself, and a c.au3 in the library, searched last; the
\* library's Array.au3, one of DEFAULT_UDFS, includes b.au3.
FileA == FileName("a")
FileB == FileName("b")
FileC == FileName("c")
Directives == {IncludeLine(FileA), IncludeLine(FileB), LibraryLine(FileC)}
DirectiveLists == UNION {[1..n -> Directives] : n \in 0..MaxDirectives}
WalkDisks ==
  {(At(WsDir, FileA) :> ta) @@ (At(WsDir, FileB) :> tb) @@
   (At(UsrDir, FileC) :> <<IncludeLine(FileA), IncludeLine(FileC)>>) @@
   (At(LibDir, FileC) :> <<>>) @@
   (At(LibDir, FileName("Array")) :> <<IncludeLine(FileB)>>) :
     ta \in DirectiveLists,
     tb \in {<<>>, <<IncludeLine(FileA)>>, <<LibraryLine(FileC)>>,
             <<LibraryLine(FileC), IncludeLine(FileA)>>}}
WalkDocuments ==
  {[fileName |-> At(WsDir, FileName("d1")), text |-> <<IncludeLine(FileA), IncludeLine(FileB)>>],
   [fileName |-> At(WsDir, FileName("d2")),
    text |-> <<Indented(IncludeLine(FileC)), IncludeLine(FileName("m")),
               LibraryLine(FileA), LibraryLine(FileB), IncludeLine(FileB)>>],
   [fileName |-> At(WsDir, FileName("d3")), text |-> <<LibraryLine(FileName("Array"))>>]}

WalkInit ==
  /\ disk \in WalkDisks
  /\ currentIncludeFiles = <<>>
  /\ includes = <<>>
  /\ last = [document |-> Document(At(WsDir, FileName("d1")), <<>>, <<>>, <<>>, <<"x">>),
             position |-> [line |-> 1, character |-> 0], func |-> Null,
             before |-> <<>>] @@ NoCall
  /\ WalkIdle /\ CallIdle /\ ParamsIdle /\ RestIdle

WalkNext ==
  \/ \E document \in WalkDocuments : GetIncludeScripts(document)
  \/ RelativeStep
  \/ RelativeEnd
  \/ LibraryStep
  \/ Return

SpecWalk == WalkInit /\ [][WalkNext]_vars
\* The walk is one synchronous call: once begun it runs on.
SpecWalkLive == SpecWalk /\ WF_vars(WalkNext)

Includes(path, name) ==
  \E k \in 1..Len(disk[path]) : disk[path][k] \in {IncludeLine(name), LibraryLine(name)}
Times(list, path) == Cardinality({k \in 1..Len(list) : list[k] = path})
WalkedA == At(UpperFirst(WsDir), FileA)
WalkedB == At(UpperFirst(WsDir), FileB)
WalkedC == At(UsrDir, FileC)
CycleAB == Includes(At(WsDir, FileA), FileB) /\ Includes(At(WsDir, FileB), FileA)

\* C3: getIncludeScripts terminates for every set of files, the recursion never
\* deeper than the number of files and the document; when a.au3 and b.au3
\* include each other, each of them is listed and read exactly once.
C3_WalkTerminates ==
  /\ <>(walking = "done")
  /\ [](Len(stack) <= Cardinality(DOMAIN disk) + 1)
  /\ []((walking = "done" /\ CycleAB /\ Times(scriptsToSearch, WalkedA) > 0) =>
          \A f \in {WalkedA, WalkedB} : Times(scriptsToSearch, f) = 1 /\ Times(reads, f) = 1)

C3_Witness ==
  /\ walking = "done" /\ CycleAB
  /\ Times(scriptsToSearch, WalkedA) = 1 /\ Times(scriptsToSearch, WalkedB) = 1

\* C4: at every point during and after a walk the list of reachable files holds
\* no path twice, and no file's text is read more than once: the files read are
\* the files listed, in the same order.
C4_NoPathTwice ==
  /\ \A k \in 1..Len(scriptsToSearch) : Times(scriptsToSearch, scriptsToSearch[k]) = 1
  /\ reads = scriptsToSearch

\* a diamond: the document includes a.au3 and b.au3, and both include c.au3
C4_Witness ==
  /\ walking = "done"
  /\ Times(scriptsToSearch, WalkedA) = 1 /\ Times(scriptsToSearch, WalkedB) = 1
  /\ Includes(At(WsDir, FileA), FileC) /\ Includes(At(WsDir, FileB), FileC)
  /\ ~Includes(At(WsDir, FileA), FileB) /\ ~Includes(At(WsDir, FileB), FileA)
  /\ Times(reads, WalkedC) = 1

(***************************************************************************)
(* The signature extractor on one declaration: a Func line is written      *)
(* parameter by parameter and then read by functionDefinitionRegex and     *)
(* buildFunctionSignature.                                                 *)
(***************************************************************************)
MaxParams == 2

\* AutoIt keywords are case-insensitive: both spellings declare by reference.
Qualifiers == {<<>>, <<"ByRef", " ">>, <<"byref", " ">>}
ParamNames == {"x", "y"}
\* no default, a number, a call with two arguments, a string with a comma
Defaults == {<<>>, <<" ", "=", " ", "5">>,
             <<" ", "=", " ", "f", "(", "1", ",", " ", "2", ")">>,
             <<" ", "=", " ", "\"", "a", ",", "b", "\"">>}
Variable(n) == <<"$", n>>

ParamText(param) == param.qualifier \o Variable(param.name) \o param.default
RECURSIVE Joined(_, _)
Joined(params, i) ==
  IF i > Len(params) THEN <<>>
  ELSE (IF i > 1 THEN <<",", " ">> ELSE <<>>) \o ParamText(params[i]) \o Joined(params, i + 1)
DeclarationLine == FuncLine(declaration.keyword, Fn("f"), Joined(declaration.params, 1))
\* The header comment of function f, which documents $x.
HeaderLines ==
  <<<<";", " ", "Name", ".", ".", ":", " ", "f">>,
    <<";", " ", "Description", ".", ":", " ", "d">>,
    <<";", " ", "Parameters", ".", ":", " ", "$", "x", " ", "-", " ", "px">>>>
\* The file: the declaration, under its header if it has one.
DeclarationText ==
  (IF declaration.header THEN HeaderLines ELSE <<>>) \o <<DeclarationLine>>

ParamsInit ==
  /\ declaration \in {[keyword |-> kw, params |-> <<>>, header |-> h] :
                         kw \in {"Func", "func"}, h \in BOOLEAN}
  /\ signature = Null
  /\ SigIdle /\ CallIdle /\ WalkIdle /\ RestIdle

AddParam(qualifier, name, default) ==
  /\ signature = Null
  /\ Len(declaration.params) < MaxParams
  /\ \A k \in 1..Len(declaration.params) : declaration.params[k].name # name
  /\ declaration' = [declaration EXCEPT !.params =
       Append(@, [qualifier |-> qualifier, name |-> name, default |-> default])]
  /\ UNCHANGED <<signature, sigVars, callVars, walkVars, symVars, lookup, wsVars, defVars, diagVars, runVars>>

\* The loop body of getIncludeData on the line.
BuildFunctionSignature ==
  /\ signature = Null
  /\ \E matches \in {ExecAll("functionDefinitionRegex", DeclarationText, 1)} :
       /\ matches # <<>>
       /\ signature' = buildFunctionSignature(matches[1], DeclarationText, FileName("f"))
  /\ UNCHANGED <<declaration, sigVars, callVars, walkVars, symVars, lookup, wsVars, defVars, diagVars, runVars>>

ParamsNext ==
  \/ \E q \in Qualifiers, n \in ParamNames, d \in Defaults : AddParam(q, n, d)
  \/ BuildFunctionSignature

SpecParams == ParamsInit /\ [][ParamsNext]_vars

StoredNames == Keys(signature.functionObject.params)
DeclaredNames == [k \in 1..Len(declaration.params) |-> Variable(declaration.params[k].name)]
Built == signature # Null /\ ~signature.threw

\* C10: for every declaration the function-definition pattern matches, the
\* stored parameter names are the declared variable names alone, the ByRef
\* qualifier and any "= default" suffix removed, in declaration order.
C10_ParamNamesAlone ==
  Built => StoredNames = DeclaredNames

\* The same for declarations that spell the qualifier "ByRef" and have no comma
\* in a default.
C10_ExactByRefRemoved ==
  (Built /\ \A k \in 1..Len(declaration.params) :
     /\ declaration.params[k].qualifier # <<"byref", " ">>
     /\ "," \notin Range(declaration.params[k].default)) => StoredNames = DeclaredNames

\* C33: buildFunctionSignature raises for no declaration the definition pattern
\* matches, whatever the defaults of its parameters hold and whether or not the
\* file has a header comment for the function: it returns a signature.
C33_ExtractionNeverRaises ==
  signature # Null => ~signature.threw

(***************************************************************************)
(* ai_symbols.js: the document symbol extractor.  A position is a line     *)
(* (counted from 1 here, from 0 in the editor) and the number of           *)
(* characters before it; a "$" and the word after it are a variable.       *)
(***************************************************************************)
MaxLines == 4

Pos(line, character) == [line |-> line, character |-> character]
\* Position.isBeforeOrEqual
BeforeOrEqual(p, q) == p.line < q.line \/ (p.line = q.line /\ p.character <= q.character)
\* Range.contains(range)
Contains(range, other) ==
  BeforeOrEqual(range.start, other.start) /\ BeforeOrEqual(other.end, range.end)
\* doc.lineAt(lineNum).range
LineRange(text, lineNum) ==
  [start |-> Pos(lineNum, 0), end |-> Pos(lineNum, Len(text[lineNum]))]

\* the words that start with "#"
HashWords == {"#cs", "#ce", "#Region", "#region", "#EndRegion", "#include"}
\* util.js isSkippableLine
isSkippableLine(l) ==
  LET i == AfterBlanks(l)
  IN IF i > Len(l) THEN TRUE
     ELSE IF l[i] = ";" THEN TRUE
     ELSE IF l[i] \in HashWords THEN l[i] \notin {"#cs", "#ce"}
     ELSE FALSE

\* /^\s*#(?:ce|comments-end)/ and /^\s*#(?:cs|comments-start)/
commentEndRegex(l) == AfterBlanks(l) <= Len(l) /\ l[AfterBlanks(l)] = "#ce"
commentStartRegex(l) == AfterBlanks(l) <= Len(l) /\ l[AfterBlanks(l)] = "#cs"

\* /\s_\b\s*(;.*)?\s*/ : a blank, an underscore and no word character after it
continuationRegex(l) ==
  \E i \in 1..(Len(l) - 1) :
    l[i] \in Blank /\ l[i + 1] = "_" /\ (i + 1 = Len(l) \/ l[i + 2] \notin WordChars)

\* util.js functionPattern: /^[\t ]*(?:volatile[\t ]+)?Func[\t ]+(\w+)[\t ]*\(/i
\* g0 is the whole match, from the line start to the "(", g1 the name.
functionPattern(l) ==
  LET i == AfterBlanks(l)
  IN IF i + 1 <= Len(l) /\ Lower(l[i]) = "func" /\ l[i + 1] \in Blank
     THEN LET n == FirstNotIn(l, i + 1, Blank)
              o == IF n = 0 THEN 0 ELSE FirstNotIn(l, n, WordChars)
              p == IF o = 0 THEN 0 ELSE FirstNotIn(l, o, Blank)
          IN IF n # 0 /\ o > n /\ p # 0 /\ l[p] = "("
             THEN [found |-> TRUE, g0 |-> Slice(l, 1, p), g1 |-> Slice(l, n, o - 1)]
             ELSE [found |-> FALSE, g0 |-> <<>>, g1 |-> <<>>]
     ELSE [found |-> FALSE, g0 |-> <<>>, g1 |-> <<>>]

\* util.js regionPattern: /^[\t ]{0,}#region\s[- ]{0,}(.+)/i
\* g0 is the whole match, which is the whole line; g1 the rest of the line after
\* the dashes and blanks, of which the last is given back when nothing follows.
regionPattern(l) ==
  LET i == AfterBlanks(l)
  IN IF i + 2 <= Len(l) /\ Lower(l[i]) = "#region" /\ l[i + 1] \in Blank
     THEN LET n == FirstNotIn(l, i + 2, {"-", " "})
          IN [found |-> TRUE, g0 |-> l,
              g1 |-> IF n = 0 THEN <<l[Len(l)]>> ELSE Slice(l, n, Len(l))]
     ELSE [found |-> FALSE, g0 |-> <<>>, g1 |-> <<>>]

\* util.js variablePattern with String.prototype.match:
\* /(?:["'].*?["'])|(?:;.*)|(\$\w+)/g gives every quoted run (closed by a quote
\* of either kind), the comment to the line end, and every variable.
RECURSIVE MatchVariables(_, _)
MatchVariables(l, i) ==
  IF i > Len(l) THEN <<>>
  ELSE IF l[i] \in Quotes /\ FirstIn(l, i + 1, Quotes) # 0
    THEN <<Slice(l, i, FirstIn(l, i + 1, Quotes))>>
           \o MatchVariables(l, FirstIn(l, i + 1, Quotes) + 1)
  ELSE IF l[i] = ";" THEN <<Slice(l, i, Len(l))>>
  ELSE IF l[i] = "$" /\ i < Len(l) /\ l[i + 1] \in WordChars
    THEN LET e == FirstNotIn(l, i + 1, WordChars)
             stop == IF e = 0 THEN Len(l) + 1 ELSE e
         IN <<Slice(l, i, stop - 1)>> \o MatchVariables(l, stop)
  ELSE MatchVariables(l, i + 1)

\* util.js AI_CONSTANTS
AI_CONSTANTS ==
  {<<"$", c>> : c \in {"MB_ICONERROR", "MB_ICONINFORMATION", "MB_YESNO", "MB_TASKMODAL",
                       "IDYES", "IDNO"}}
delims == {"'", "\"", ";"}
shouldSkipVariable(variable) == variable \in AI_CONSTANTS \/ variable[1] \in delims

\* variableRegex: /^\s*?(Local|Global)?\s(Const|Enum)/ and the switch on its group
getVariableKind(text, inContinuation, variableKind) ==
  IF inContinuation THEN variableKind
  ELSE LET kinds ==
             {text[k + 2] : k \in {j \in 0..(Len(text) - 2) :
                /\ \A b \in 1..j : text[b] \in Blank
                /\ text[j + 1] \in Blank /\ text[j + 2] \in {"Const", "Enum"}}}
             \cup
             {text[k + 3] : k \in {j \in 0..(Len(text) - 3) :
                /\ \A b \in 1..j : text[b] \in Blank
                /\ text[j + 1] \in {"Local", "Global"} /\ text[j + 2] \in Blank
                /\ text[j + 3] \in {"Const", "Enum"}}}
       IN IF "Const" \in kinds THEN "Constant"
          ELSE IF "Enum" \in kinds THEN "Enum"
          ELSE "Variable"

\* The first position at or after character index i of line lineNum (and then in
\* the lines after it: the s flag) whose word, in lower case, is in S; or NoPos.
NoPos == [line |-> 0, character |-> 0]
RECURSIVE NextWord(_, _, _, _)
NextWord(text, lineNum, i, S) ==
  IF lineNum > Len(text) THEN NoPos
  ELSE IF i > Len(text[lineNum]) THEN NextWord(text, lineNum + 1, 1, S)
  ELSE IF Lower(text[lineNum][i]) \in S THEN Pos(lineNum, i)
  ELSE NextWord(text, lineNum, i + 1, S)

\* The index where the blanks right before index k of line l begin.
RECURSIVE BlanksBefore(_, _)
BlanksBefore(l, k) == IF k > 1 /\ l[k - 1] \in Blank THEN BlanksBefore(l, k - 1) ELSE k

\* Func[\t ]+\b(NAME+\b) at the word at index k of l: the index of the last word
\* of the name, or 0.  The i flag applies to the keyword; names are compared as
\* written.
FuncHeadEnd(l, k, functionName) ==
  IF k + 1 <= Len(l) /\ Lower(l[k]) = "func" /\ l[k + 1] \in Blank
  THEN LET n == FirstNotIn(l, k + 1, Blank)
           o == IF n = 0 THEN 0 ELSE FirstNotIn(l, n, WordChars)
           stop == IF o = 0 THEN Len(l) + 1 ELSE o
       IN IF n # 0 /\ Slice(l, n, stop - 1) = functionName THEN stop - 1 ELSE 0
  ELSE 0

\* The first match of the head of createFunctionSymbol's expression from lastIndex on.
RECURSIVE FuncHead(_, _, _, _)
FuncHead(text, lineNum, k, functionName) ==
  LET at == NextWord(text, lineNum, k, {"func"})
  IN IF at = NoPos THEN NoPos
     ELSE IF FuncHeadEnd(text[at.line], at.character, functionName) # 0 THEN at
     ELSE FuncHead(text, at.line, at.character + 1, functionName)

Symbol(name, kind, containerName, range) ==
  [name |-> name, kind |-> kind, containerName |-> containerName, range |-> range]
NoSymbol == [found |-> FALSE]

\* createFunctionSymbol: the expression
\* [\t ]*(?:volatile[\t ]+)?Func[\t ]+\b(NAME+\b).*?(EndFunc) with flags gsi,
\* searched from the start of line lineNum; the range runs from the match's first
\* character to the end of the first EndFunc after the head.
createFunctionSymbol(functionName, text, lineNum) ==
  LET head == FuncHead(text, lineNum, 1, functionName)
  IN IF head = NoPos THEN NoSymbol
     ELSE LET l == text[head.line]
              close == NextWord(text, head.line,
                                FuncHeadEnd(l, head.character, functionName) + 1, {"endfunc"})
          IN IF close = NoPos THEN NoSymbol
             ELSE [found |-> TRUE,
                   symbol |-> Symbol(functionName, "Function", <<>>,
                     [start |-> Pos(head.line, BlanksBefore(l, head.character) - 1),
                      end |-> Pos(close.line, close.character)])]

\* #Region\s[- ]{0,}(NAME) at the word at index k of l, which the expression
\* spells in this case only: the index of the last word of the name, or 0.
RegionHeadEnd(l, k, regionName) ==
  IF k + 1 <= Len(l) /\ l[k] = "#Region" /\ l[k + 1] \in Blank
  THEN LET starts == {n \in (k + 2)..Len(l) :
                        /\ \A b \in (k + 2)..(n - 1) : l[b] \in {"-", " "}
                        /\ Slice(l, n, n + Len(regionName) - 1) = regionName}
       IN IF starts = {} \/ regionName = <<>> THEN 0 ELSE Min(starts) + Len(regionName) - 1
  ELSE 0

RECURSIVE RegionHead(_, _, _, _)
RegionHead(text, lineNum, k, regionName) ==
  IF lineNum > Len(text) THEN NoPos
  ELSE IF k > Len(text[lineNum]) THEN RegionHead(text, lineNum + 1, 1, regionName)
  ELSE IF RegionHeadEnd(text[lineNum], k, regionName) # 0 THEN Pos(lineNum, k)
  ELSE RegionHead(text, lineNum, k + 1, regionName)

\* createRegionSymbol: the expression #Region\s[- ]{0,}(NAME).*?#EndRegion with
\* the s flag only, searched from the start of the text; the range runs from the
\* first marker that spells the name to the end of the first #EndRegion after it.
createRegionSymbol(regionName, text) ==
  LET head == RegionHead(text, 1, 1, regionName)
  IN IF head = NoPos THEN NoSymbol
     ELSE LET close == NextWord(text, head.line,
                                RegionHeadEnd(text[head.line], head.character, regionName) + 1,
                                {"#EndRegion"})
          IN IF close = NoPos THEN NoSymbol
             ELSE [found |-> TRUE,
                   symbol |-> Symbol(regionName, "Namespace", <<>>,
                     [start |-> Pos(head.line, head.character - 1),
                      end |-> Pos(close.line, close.character)])]

\* What the editor's SymbolInformation keeps when it is given no container string
\* (createVariableSymbol passes null for a missing name), and the name of {}.
Undefined == <<"undefined">>
\* workspace.getConfiguration('autoit'), with the settings' defaults
config == [showVariablesInGoToSymbol |-> TRUE, showRegionsInGoToSymbol |-> TRUE]

parseFunctionFromText(text, found, docText, lineNum, result) ==
  LET funcName == functionPattern(text)
      unchanged == [result |-> result, processedSymbols |-> found]
  IN IF ~funcName.found \/ funcName.g0 \in found THEN unchanged
     ELSE LET functionSymbol == createFunctionSymbol(funcName.g1, docText, lineNum)
          IN IF ~functionSymbol.found THEN unchanged
             ELSE [result |-> Append(result, functionSymbol.symbol),
                   processedSymbols |-> found \cup {funcName.g1}]

parseRegionFromText(regionName, found, docText, result) ==
  LET unchanged == [result |-> result, processedSymbols |-> found]
  IN IF ~config.showRegionsInGoToSymbol THEN unchanged
     ELSE IF ~regionName.found \/ regionName.g0 \in found THEN unchanged
     ELSE LET regionSymbol == createRegionSymbol(regionName.g1, docText)
          IN IF ~regionSymbol.found THEN unchanged
             ELSE [result |-> Append(result, regionSymbol.symbol),
                   processedSymbols |-> found \cup {regionName.g0}]

\* A search that finds no function.
NoContainer(result, lineRange) == [name |-> Undefined]
\* result.find(...) || {}
findContainerForVariable(result, lineRange) ==
  LET hits == {k \in 1..Len(result) :
                 Contains(result[k].range, lineRange) /\ result[k].kind = "Function"}
  IN IF hits = {} THEN [name |-> Undefined] ELSE result[Min(hits)]

\* A check that sees no earlier symbol.
NeverInResults(result, variable, container) == FALSE
isVariableInResults(result, variable, container) ==
  \E k \in 1..Len(result) :
    result[k].name = variable /\ result[k].containerName = container.name

\* The loop of parseVariablesFromText over the matches of the line.
RECURSIVE AddVariables(_, _, _, _, _, _)
AddVariables(variables, i, variableKind, lineRange, result, found) ==
  IF i > Len(variables) THEN [result |-> result, processedSymbols |-> found]
  ELSE LET variable == variables[i]
           container == findContainerForVariable(result, lineRange)
       IN IF shouldSkipVariable(variable) \/ isVariableInResults(result, variable, container)
          THEN AddVariables(variables, i + 1, variableKind, lineRange, result, found)
          ELSE CHOOSE end \in
                 {AddVariables(variables, i + 1, variableKind, lineRange, added,
                               found \cup {variable}) :
                    added \in {Append(result, Symbol(variable, variableKind,
                                                     container.name, lineRange))}} : TRUE

parseVariablesFromText(text, result, lineRange, found, inContinuation, variableKind) ==
  LET variables == MatchVariables(text, 1)
  IN IF ~config.showVariablesInGoToSymbol \/ variables = <<>>
     THEN [result |-> result, processedSymbols |-> found,
           inContinuation |-> inContinuation, variableKind |-> variableKind]
     ELSE LET kind == getVariableKind(text, inContinuation, variableKind)
          IN AddVariables(variables, 1, kind, lineRange, result, found) @@
             [inContinuation |-> continuationRegex(text), variableKind |-> kind]

\* Math.min(doc.lineCount, 10000)
LineLimit == 10000

\* A pass that begins with the set an earlier pass left.
LeftoverPass(leftover) ==
  [result |-> <<>>, processedSymbols |-> leftover, inComment |-> FALSE,
   inContinuation |-> FALSE, variableKind |-> "undefined"]
\* const result = []; const processedSymbols = new Set(); ...
NewPass(leftover) ==
  [result |-> <<>>, processedSymbols |-> {}, inComment |-> FALSE,
   inContinuation |-> FALSE, variableKind |-> "undefined"]

\* The three parse calls of one iteration, each on what the one before it left.
AfterRegion(st, v, r) ==
  [st EXCEPT !.result = r.result, !.processedSymbols = r.processedSymbols,
             !.inContinuation = v.inContinuation, !.variableKind = v.variableKind]
AfterVariables(st, docText, regionName, v) ==
  AfterRegion(st, v, parseRegionFromText(regionName, v.processedSymbols, docText, v.result))
AfterFunction(st, docText, lineNum, regionName, f) ==
  AfterVariables(st, docText, regionName,
    parseVariablesFromText(docText[lineNum], f.result, LineRange(docText, lineNum),
                           f.processedSymbols, st.inContinuation, st.variableKind))
ParseLine(st, docText, lineNum, regionName) ==
  AfterFunction(st, docText, lineNum, regionName,
    parseFunctionFromText(docText[lineNum], st.processedSymbols, docText, lineNum, st.result))
\* if (commentEndRegex.test(text)) ...; if (commentStartRegex.test(text)) ...
CommentState(st, text) ==
  [st EXCEPT !.inComment = IF commentStartRegex(text) THEN TRUE
                           ELSE IF commentEndRegex(text) THEN FALSE ELSE @]

\* One iteration of the loop of provideDocumentSymbols.
PassLine(docText, lineNum, st) ==
  CommentState(
    IF (~isSkippableLine(docText[lineNum]) \/ regionPattern(docText[lineNum]).found)
       /\ ~st.inComment
    THEN ParseLine(st, docText, lineNum, regionPattern(docText[lineNum]))
    ELSE st,
    docText[lineNum])

RECURSIVE PassFrom(_, _, _)
PassFrom(docText, lineNum, st) ==
  IF lineNum > Min({Len(docText), LineLimit}) THEN st
  ELSE CHOOSE end \in {PassFrom(docText, lineNum + 1, next) :
                          next \in {PassLine(docText, lineNum, st)}} : TRUE

\* provideDocumentSymbols: the state the loop ends in; result is what it returns.
provideDocumentSymbols(docText, leftover) == PassFrom(docText, 1, NewPass(leftover))

\* The lines a document is written from: declarations and functions, regions,
\* and comment blocks.
VarX == <<"$", "x">>
FunctionLines ==
  {FuncLine("Func", Fn("F"), VarX), FuncLine("Func", Fn("G"), VarX), <<"EndFunc">>,
   <<"Local", " ">> \o VarX, <<"Global", " ", "Const", " ">> \o VarX}
RegionLine(marker, name) == <<marker, " ">> \o name
RegionLines ==
  {RegionLine("#Region", Fn("A")), Indented(RegionLine("#Region", Fn("A"))),
   RegionLine("#Region", Fn("G")), <<"#EndRegion">>, <<"Local", " ">> \o VarX}
CommentLines ==
  {<<"#cs">>, <<"#ce">>, <<"Local", " ">> \o VarX,
   RegionLine("#region", <<"-", " ", "A">>)}
Palettes == {FunctionLines, RegionLines, CommentLines}
\* another file of the workspace, and the document signature help is asked for
OtherDoc ==
  <<RegionLine("#Region", Fn("A")), <<"#EndRegion">>, FuncLine("Func", Fn("F"), VarX),
    <<"EndFunc">>>>
HelpDoc == Document(At(WsDir, FileName("d2")), <<FileName("a")>>, <<>>, <<>>, InCall)

SymInit == SigIdle /\ CallIdle /\ WalkIdle /\ ParamsIdle /\ RestIdle

SymOnly == UNCHANGED <<sigVars, callVars, walkVars, paramVars, lookup, wsVars, defVars, diagVars, runVars>>

\* A line is typed at the end of the document.
AppendLine(line) ==
  /\ ~symbols.ran /\ Len(openDoc) < MaxLines
  /\ \E palette \in Palettes :
       line \in palette /\ \A k \in 1..Len(openDoc) : openDoc[k] \in palette
  /\ openDoc' = Append(openDoc, line)
  /\ UNCHANGED <<symbols, earlier, processedSymbols>>
  /\ SymOnly

ProvideDocumentSymbols ==
  /\ \E pass \in {provideDocumentSymbols(openDoc, processedSymbols)} :
       /\ symbols' = [ran |-> TRUE, result |-> pass.result, after |-> {}]
       /\ processedSymbols' = pass.processedSymbols
  /\ earlier' = symbols
  /\ UNCHANGED openDoc
  /\ SymOnly

\* Between two passes: the pass of the workspace symbol provider over another file.
ProvideOtherSymbols ==
  /\ symbols.ran
  /\ processedSymbols' = provideDocumentSymbols(OtherDoc, processedSymbols).processedSymbols
  /\ symbols' = [symbols EXCEPT !.after = @ \cup {"symbols"}]
  /\ UNCHANGED <<openDoc, earlier>>
  /\ SymOnly

\* Between two passes: a signature help call.
HelpBetweenPasses ==
  /\ symbols.ran
  /\ provideSignatureHelp(HelpDoc, EndOf(HelpDoc))
  /\ symbols' = [symbols EXCEPT !.after = @ \cup {"signature"}]
  /\ UNCHANGED <<openDoc, earlier, processedSymbols>>
  /\ UNCHANGED <<disk, callVars, walkVars, paramVars, lookup, wsVars, defVars, diagVars, runVars>>

SymNext ==
  \/ \E line \in UNION Palettes : AppendLine(line)
  \/ ProvideDocumentSymbols
  \/ ProvideOtherSymbols
  \/ HelpBetweenPasses

SpecSymbols == SymInit /\ [][SymNext]_vars

VariableKinds == {"Variable", "Constant", "Enum"}
\* The document has no comment block markers, so every line of it is parsed.
NoComments(docText) == \A k \in 1..Len(docText) : docText[k] \notin {<<"#cs">>, <<"#ce">>}
\* The variable tokens of a line that the extractor does not skip.
VariableTokens(l) == {v \in Range(MatchVariables(l, 1)) : ~shouldSkipVariable(v)}
\* The Function symbols of a list whose range contains a line.
Owners(result, lineRange) ==
  {j \in 1..Len(result) :
     result[j].kind = "Function" /\ Contains(result[j].range, lineRange)}

C12_VariablePairsUnique ==
  symbols.ran =>
    \A i, j \in 1..Len(symbols.result) :
      (/\ i < j
       /\ symbols.result[i].kind \in VariableKinds
       /\ symbols.result[j].kind \in VariableKinds
       /\ symbols.result[i].name = symbols.result[j].name)
      => symbols.result[i].containerName # symbols.result[j].containerName
\* the same variable on two parsed lines that have the same container
C12_Witness ==
  /\ symbols.ran /\ NoComments(openDoc)
  /\ \E k1, k2 \in 1..Len(openDoc) :
       /\ k1 < k2
       /\ VarX \in VariableTokens(openDoc[k1]) /\ VarX \in VariableTokens(openDoc[k2])
       /\ findContainerForVariable(symbols.result, LineRange(openDoc, k1)).name
            = findContainerForVariable(symbols.result, LineRange(openDoc, k2)).name

\* C13: in the list one pass returns, no two Function symbols have the same name.
C13_FunctionNamesUnique ==
  symbols.ran =>
    \A i, j \in 1..Len(symbols.result) :
      (/\ i < j
       /\ symbols.result[i].kind = "Function"
       /\ symbols.result[j].kind = "Function")
      => symbols.result[i].name # symbols.result[j].name

\* The line of the #EndRegion that closes the region opened before lineNum, depth
\* regions being open at lineNum; 0 when it is not closed.
RECURSIVE ClosingLine(_, _, _)
ClosingLine(text, lineNum, depth) ==
  IF lineNum > Len(text) THEN 0
  ELSE IF regionPattern(text[lineNum]).found THEN ClosingLine(text, lineNum + 1, depth + 1)
  ELSE IF text[lineNum] = <<"#EndRegion">>
    THEN IF depth = 1 THEN lineNum ELSE ClosingLine(text, lineNum + 1, depth - 1)
  ELSE ClosingLine(text, lineNum + 1, depth)
\* A document of region markers and declarations only.
RegionDocument(docText) == \A k \in 1..Len(docText) : docText[k] \in RegionLines

\* C14: a region symbol's range starts at a #Region marker of its name and ends
\* at the end of the #EndRegion that closes that marker's region, nested regions
\* included.
C14_RegionEndsAtOwnEnd ==
  (symbols.ran /\ RegionDocument(openDoc)) =>
    \A s \in Range(symbols.result) :
      s.kind = "Namespace" =>
        /\ regionPattern(openDoc[s.range.start.line]).found
        /\ regionPattern(openDoc[s.range.start.line]).g1 = s.name
        /\ s.range.end = Pos(ClosingLine(openDoc, s.range.start.line + 1, 1), 1)

\* The names of the regions of a document that are closed.
ClosedRegionNames(docText) ==
  {regionPattern(docText[k]).g1 :
     k \in {n \in 1..Len(docText) :
              regionPattern(docText[n]).found /\ ClosingLine(docText, n + 1, 1) # 0}}

\* C15: a pass gives exactly one Namespace symbol for each name that closed
\* regions of the document carry, also when a region lies inside another of the
\* same name.
C15_OneSymbolPerRegionName ==
  (symbols.ran /\ RegionDocument(openDoc)) =>
    \A name \in ClosedRegionNames(openDoc) :
      Cardinality({k \in 1..Len(symbols.result) :
                     symbols.result[k].kind = "Namespace"
                     /\ symbols.result[k].name = name}) = 1

FindDirs == {LibDir, UsrDir, AltDir, WsDir}
FindNames == {FileA, FileB}
NoFiles == [path \in {} |-> <<>>]

FindInit ==
  /\ disk = NoFiles
  /\ currentIncludeFiles = <<>>
  /\ includes = <<>>
  /\ last = [document |-> Document(At(WsDir, FileName("d1")), <<>>, <<>>, <<>>, <<"x">>),
             position |-> [line |-> 1, character |-> 0], func |-> Null,
             before |-> <<>>] @@ NoCall
  /\ CallIdle /\ WalkIdle /\ ParamsIdle /\ RestIdle

FindOnly ==
  UNCHANGED <<currentIncludeFiles, includes, last, callVars, walkVars, paramVars, symVars,
              wsVars, defVars, diagVars, runVars>>

\* A file appears in a directory.
WriteFile(path) ==
  /\ path \notin DOMAIN disk
  /\ disk' = [q \in DOMAIN disk \cup {path} |-> <<>>]
  /\ UNCHANGED lookup
  /\ FindOnly

\* A file is removed.
UnlinkFile(path) ==
  /\ path \in DOMAIN disk
  /\ disk' = [q \in DOMAIN disk \ {path} |-> <<>>]
  /\ UNCHANGED lookup
  /\ FindOnly

FindFilepath(file, library) ==
  /\ lookup' = [called |-> TRUE, file |-> file, library |-> library,
                result |-> findFilepath(Rel(file), library)]
  /\ UNCHANGED disk
  /\ FindOnly

FindNext ==
  \/ \E d \in FindDirs, n \in FindNames : WriteFile(At(d, n))
  \/ \E d \in FindDirs, n \in FindNames : UnlinkFile(At(d, n))
  \/ \E n \in FindNames, library \in BOOLEAN : FindFilepath(n, library)

SpecFind == FindInit /\ [][FindNext]_vars

\* The order the directories are tried in: the configured one, or the configured
\* one with its first directory last.
EffectiveOrder(library) ==
  IF library THEN includePaths
  ELSE [k \in 1..Len(includePaths) |-> includePaths[(k % Len(includePaths)) + 1]]

\* C17: a findFilepath call returns the candidate of the first directory, in
\* effective order, whose candidate is on disk at the call, and false when no
\* directory has one; the effective order is the configured order when library
\* is true and the configured order with its first directory last otherwise.
C17_FirstExistingInOrder ==
  [][lookup' # lookup =>
       LET order == EffectiveOrder(lookup'.library)
           exists(k) == At(order[k], lookup'.file) \in DOMAIN disk
       IN IF lookup'.result = NotFound
          THEN \A k \in 1..Len(order) : ~exists(k)
          ELSE \E k \in 1..Len(order) :
                 /\ lookup'.result = At(order[k], lookup'.file)
                 /\ exists(k)
                 /\ \A j \in 1..(k - 1) : ~exists(j)]_vars
\* a call with library false that returned the library directory's file, which is
\* tried last, while the file is also in the workspace
C17_Witness ==
  /\ lookup.called /\ ~lookup.library
  /\ lookup.result = At(LibDir, lookup.file)
  /\ At(WsDir, lookup.file) \in DOMAIN disk
  /\ At(UsrDir, lookup.file) \notin DOMAIN disk /\ At(AltDir, lookup.file) \notin DOMAIN disk

\* The functions a file on disk declares, and the files its quoted directives name.
DeclaredIn(path) == {m.g2 : m \in Range(ExecAll("functionDefinitionRegex", disk[path], 1))}
IncludedBy(path) == Range(getIncludesFromText(disk[path]))

\* C18: when the document of a signature help call includes b.au3, b.au3 includes
\* c.au3 and c.au3 declares H, the merged table of the call has H.
C18_TransitiveFunctionPresent ==
  (/\ last.called /\ ~last.threw
   /\ FileName("b") \in Range(LastIncludesCheck)
   /\ FileName("c") \in IncludedBy(At(WsDir, FileName("b")))
   /\ Fn("H") \in DeclaredIn(At(WsDir, FileName("c"))))
  => Has(last.allSignatures, Fn("H"))

(***************************************************************************)
(* ai_workspaceSymbols.js: the cache of the workspace's symbols, the        *)
(* collections whose promises are pending, and the file watcher.  A         *)
(* collection is stale once a watcher handler has run since it began.       *)
(***************************************************************************)
MaxScans == 2
MaxEvents == 1

\* let symbolsCache = []
EmptyCache == [value |-> "array", symbols |-> <<>>, stale |-> FALSE]
\* A handler that leaves the cache as it is.
KeepCache(cache) == cache
\* watcher.onDidChange, onDidCreate, onDidDelete: symbolsCache = []
onDidChange(cache) == EmptyCache

WsFiles == <<At(WsDir, FileA), At(WsDir, FileB)>>
ScriptF == <<FuncLine("Func", Fn("F"), VarX), <<"EndFunc">>>>
ScriptG == <<FuncLine("Func", Fn("G"), VarX), <<"EndFunc">>>>
WsTexts == {ScriptF, ScriptG}
\* workspace.findFiles: the script files now in the workspace, in path order
findFiles == SelectSeq(WsFiles, LAMBDA path : path \in DOMAIN disk)
\* The values in the order the promises were fulfilled in.
InCompletionOrder(settled) == [i \in 1..Len(settled) |-> settled[i].symbols]
\* Promise.all(scriptPromises) with every promise fulfilled: the values in the
\* order of the promises, whatever order they were fulfilled in.  settled lists
\* the fulfilled promises in the order they were fulfilled.
PromiseAll(settled) ==
  [i \in 1..Len(settled) |-> (CHOOSE s \in Range(settled) : s.file = i).symbols]
\* symbols.flat()
RECURSIVE flat(_)
flat(lists) ==
  IF lists = <<>> THEN <<>> ELSE Head(lists) \o flat(Tail(lists))
\* The symbols of the files as they are now, one file after the other.
Flat(files) ==
  flat([k \in 1..Len(files) |-> provideDocumentSymbols(disk[files[k]], {}).result])

WsInit ==
  /\ disk = (WsFiles[1] :> ScriptF)
  /\ currentIncludeFiles = <<>>
  /\ includes = <<>>
  /\ last = [document |-> Document(At(WsDir, FileName("d1")), <<>>, <<>>, <<>>, <<"x">>),
             position |-> [line |-> 1, character |-> 0], func |-> Null,
             before |-> <<>>] @@ NoCall
  /\ CallIdle /\ WalkIdle /\ ParamsIdle /\ RestIdle

WsOnly ==
  UNCHANGED <<currentIncludeFiles, includes, last, callVars, walkVars, paramVars, symVars,
              lookup, defVars, diagVars, runVars>>

\* A script file is created, changed or deleted; the watcher will be told.
FileCreated(path, text) ==
  /\ events < MaxEvents /\ path \notin DOMAIN disk
  /\ disk' = disk @@ (path :> text)
  /\ events' = events + 1
  /\ UNCHANGED <<symbolsCache, scans, answer>>
  /\ WsOnly

FileChanged(path, text) ==
  /\ events < MaxEvents /\ path \in DOMAIN disk /\ disk[path] # text
  /\ disk' = [disk EXCEPT ![path] = text]
  /\ events' = events + 1
  /\ UNCHANGED <<symbolsCache, scans, answer>>
  /\ WsOnly

FileDeleted(path) ==
  /\ events < MaxEvents /\ path \in DOMAIN disk
  /\ disk' = [q \in DOMAIN disk \ {path} |-> disk[q]]
  /\ events' = events + 1
  /\ UNCHANGED <<symbolsCache, scans, answer>>
  /\ WsOnly

\* Every collection of the bag, marked as begun before a handler ran.
Overtaken(bag) ==
  LET marked == {[s EXCEPT !.stale = TRUE] : s \in BagToSet(bag)}
  IN [m \in marked |-> CopiesIn(m, bag) + CopiesIn([m EXCEPT !.stale = FALSE], bag)]

\* The watcher's handler runs.
WatcherEvent ==
  /\ events > 0
  /\ events' = events - 1
  /\ symbolsCache' = onDidChange(symbolsCache)
  /\ scans' = Overtaken(scans)
  /\ UNCHANGED <<disk, answer>>
  /\ WsOnly

\* A collection as it begins: getWorkspaceSymbols waits for findFiles.
NewScan == [stage |-> "findFiles", files |-> <<>>, settled |-> <<>>, stale |-> FALSE]

\* provideWorkspaceSymbols is called: null.length raises, an empty cache starts
\* a collection and waits for it, any other cache is returned.
ProvideWorkspaceSymbols ==
  /\ IF symbolsCache.value = "null"
     THEN /\ answer' = [given |-> TRUE, value |-> "TypeError", symbols |-> <<>>,
                        stale |-> FALSE, order |-> <<>>]
          /\ UNCHANGED scans
     ELSE IF Len(symbolsCache.symbols) = 0
     THEN /\ BagCardinality(scans) < MaxScans
          /\ scans' = scans (+) SetToBag({NewScan})
          /\ UNCHANGED answer
     ELSE /\ answer' = [given |-> TRUE, value |-> "array",
                        symbols |-> symbolsCache.symbols, stale |-> symbolsCache.stale,
                        order |-> <<>>]
          /\ UNCHANGED scans
  /\ UNCHANGED <<disk, symbolsCache, events>>
  /\ WsOnly

\* getWorkspaceSymbols returns value to provideWorkspaceSymbols, which stores it
\* in the cache and returns it to the call that waited for collection s.  order
\* is the order the files' promises were fulfilled in.
Returned(s, value, list, order) ==
  /\ symbolsCache' = [value |-> value, symbols |-> list, stale |-> s.stale]
  /\ answer' = [given |-> TRUE, value |-> value, symbols |-> list, stale |-> FALSE,
                order |-> order]
  /\ scans' = scans (-) SetToBag({s})

\* One collection s of the bag goes on as collection next.
GoesOn(s, next) == scans' = (scans (-) SetToBag({s})) (+) SetToBag({next})

\* getWorkspaceSymbols resumes with the files findFiles found and asks for each
\* of them; Promise.all of no promise is fulfilled at once.
FilesFound(s) ==
  /\ s \in BagToSet(scans) /\ s.stage = "findFiles"
  /\ IF findFiles = <<>>
     THEN Returned(s, "array", <<>>, <<>>)
     ELSE /\ GoesOn(s, [s EXCEPT !.stage = "openTextDocument", !.files = findFiles])
          /\ UNCHANGED <<symbolsCache, answer>>
  /\ UNCHANGED <<disk, events>>
  /\ WsOnly

\* openTextDocument settles for file i of collection s.  Fulfilled, the callback
\* returns the file's symbols, and with the last file Promise.all is fulfilled
\* and getWorkspaceSymbols returns the flat list.  Rejected (the file is gone),
\* Promise.all is rejected at once and the catch returns null.
DocumentOpened(s, i) ==
  /\ s \in BagToSet(scans) /\ s.stage = "openTextDocument"
  /\ i \in 1..Len(s.files)
  /\ \A j \in 1..Len(s.settled) : s.settled[j].file # i
  /\ LET file == s.files[i]
         order == [j \in 1..Len(s.settled) |-> s.settled[j].file]
     IN IF file \notin DOMAIN disk
        THEN Returned(s, "null", <<>>, order)
        ELSE LET settled ==
                   Append(s.settled,
                          [file |-> i,
                           symbols |-> provideDocumentSymbols(disk[file], {}).result])
             IN IF Len(settled) = Len(s.files)
                THEN Returned(s, "array", flat(PromiseAll(settled)), Append(order, i))
                ELSE /\ GoesOn(s, [s EXCEPT !.settled = settled])
                     /\ UNCHANGED <<symbolsCache, answer>>
  /\ UNCHANGED <<disk, events>>
  /\ WsOnly

WsNext ==
  \/ \E path \in Range(WsFiles), text \in WsTexts : FileCreated(path, text)
  \/ \E path \in Range(WsFiles), text \in WsTexts : FileChanged(path, text)
  \/ \E path \in Range(WsFiles) : FileDeleted(path)
  \/ WatcherEvent
  \/ ProvideWorkspaceSymbols
  \/ \E s \in BagToSet(scans) : FilesFound(s)
  \/ \E s \in BagToSet(scans), i \in 1..Len(WsFiles) : DocumentOpened(s, i)

SpecWorkspace == WsInit /\ [][WsNext]_vars

\* A provideWorkspaceSymbols call: it starts a collection, or it returns without
\* one.
QueryStep ==
  \/ BagCardinality(scans') = BagCardinality(scans) + 1
  \/ BagCardinality(scans') = BagCardinality(scans) /\ answer' # answer
\* The handler of a file event runs while no collection is in flight.
QuietInvalidation == events' = events - 1 /\ scans = EmptyBag
Invalidated == symbolsCache = EmptyCache
\* No handler has run since any collection in flight began.
Undisturbed == \A s \in BagToSet(scans) : ~s.stale

\* C19: when the handler of a file event has run with no collection in flight,
\* the cache is empty and stays so until the next provideWorkspaceSymbols call;
\* that call starts a new collection instead of returning a cached list, and a
\* collection that no file event disturbs stores the symbols of the files as
\* they are.
C19_InvalidationForcesRescan ==
  /\ [][QuietInvalidation => (Invalidated' /\ scans' = EmptyBag)]_vars
  /\ [][(Invalidated /\ scans = EmptyBag /\ ~QueryStep) => Invalidated']_vars
  /\ [][(Invalidated /\ QueryStep) =>
          /\ scans' = scans (+) SetToBag({NewScan})
          /\ answer' = answer]_vars
  /\ [][(BagCardinality(scans) = 1 /\ scans' = EmptyBag /\ Undisturbed /\ events = 0)
        => symbolsCache' = [EmptyCache EXCEPT !.symbols = Flat(findFiles)]]_vars
\* an earlier call returned symbols, the cache has been emptied since, and the
\* collection of a new call is in flight with no file event since it began
C19_Witness ==
  /\ answer.given /\ answer.value = "array" /\ answer.symbols # <<>>
  /\ Invalidated /\ events = 0
  /\ BagCardinality(scans) = 1 /\ Undisturbed

\* C20: a collection that began before a file event's handler ran does not store
\* its result in the cache, and no provideWorkspaceSymbols call made after the
\* handler ran returns the result of such a collection.
C20_StaleCollectionNotStored ==
  /\ ~symbolsCache.stale
  /\ answer.given => ~answer.stale

\* Collection s has returned in this step.
ReturnedFrom(s) == BagIn(s, scans) /\ scans' = scans (-) SetToBag({s})

\* C21: when a collection returns, the call that waited for it is given a list,
\* and the list has the symbols of every file of the collection that had been
\* opened, whether or not another file of the collection could not be opened.
C21_FailingFileContributesNone ==
  [][\A s \in BagToSet(scans) : ReturnedFrom(s) =>
       /\ answer'.value = "array"
       /\ \A f \in Range(s.settled) : Range(f.symbols) \subseteq Range(answer'.symbols)]_vars

\* A provideWorkspaceSymbols call starts a collection in this step.
StartsCollection == scans' = scans (+) SetToBag({NewScan})
\* The cache holds a list that a collection stored after the last handler ran.
StoredSince == symbolsCache.value = "array" /\ symbolsCache.symbols # <<>>

\* C31: between two runs of a watcher handler at most one collection is made: a
\* provideWorkspaceSymbols call starts a collection only if every collection in
\* flight began before the last handler ran, and a call made once a list has
\* been stored starts none and returns that list.
C31_OneScanBetweenEvents ==
  /\ [][StartsCollection => \A s \in BagToSet(scans) : s.stale]_vars
  /\ [][(StoredSince /\ QueryStep) =>
          /\ scans' = scans
          /\ answer'.value = "array" /\ answer'.symbols = symbolsCache.symbols]_vars

\* What the promise of file i of collection s is fulfilled with: the symbols it
\* was fulfilled with, or those of the file as it is if it is fulfilled now.
FulfilledWith(s, i) ==
  IF \E f \in Range(s.settled) : f.file = i
  THEN (CHOOSE f \in Range(s.settled) : f.file = i).symbols
  ELSE provideDocumentSymbols(disk[s.files[i]], {}).result
InFileOrder(s) == flat([i \in 1..Len(s.files) |-> FulfilledWith(s, i)])

\* C32: a collection returns a list only once every file's extraction has
\* completed, and the list is the files' symbol lists one after the other in
\* the order findFiles gave the files in, whatever order the extractions
\* completed in.
C32_CompletionOrderIrrelevant ==
  [][\A s \in BagToSet(scans) : (ReturnedFrom(s) /\ answer'.value = "array") =>
       /\ Len(s.settled) + 1 >= Len(s.files)
       /\ answer'.symbols = InFileOrder(s)]_vars
\* a call was given the list of a collection over two files with different
\* symbols whose second file completed first
C32_Witness ==
  /\ answer.given /\ answer.value = "array" /\ answer.order = <<2, 1>>
  /\ Len(answer.symbols) >= 2
  /\ answer.symbols[1] # answer.symbols[Len(answer.symbols)]

\* C36: the cache always holds a list, and no provideWorkspaceSymbols call
\* raises: a call made after a collection failed is given a list.
C36_CacheAlwaysList ==
  /\ symbolsCache.value = "array"
  /\ answer.given => answer.value # "TypeError"

(***************************************************************************)
(* Signature help while an included file is edited: a.au3 is saved with    *)
(* other content between queries.  The only watcher of the extension is    *)
(* that of ai_workspaceSymbols.js.                                         *)
(***************************************************************************)
\* a.au3 as it is at first, and with F alone, now of two parameters.
IncludeTexts == {SigDisk[At(WsDir, FileA)], Redeclares("F")}

EditNext ==
  \/ ProvideSignatureHelp
  \/ \E text \in IncludeTexts : FileChanged(At(WsDir, FileA), text)
  \/ WatcherEvent

SpecSigEdit == SigInit /\ [][EditNext]_vars

\* Every entry of the table is what parsing its file gives now.
ParsedFromDisk(table, document) ==
  \A k \in 1..Len(table) :
    \E data \in {getIncludeData(HarvestedFrom(table[k]), document)} :
      /\ ~data.threw
      /\ Has(data.functions, table[k].key)
      /\ Get(data.functions, table[k].key) = table[k].value

\* C35: the included signatures a query uses are those parsed from the included
\* files as they are on disk when the query is made, also when a file has
\* changed since an earlier query.
C35_ChangedIncludeReparsed ==
  [][(last' # last /\ last'.called /\ ~last'.threw) =>
       ParsedFromDisk(includes', last'.document)]_vars

\* A quoted or bracketed include directive of the text names a file that is
\* neither beside the document nor in a configured directory.
NamesMissingFile(document) ==
  \/ \E n \in Range(getIncludesFromText(document.text)) :
       /\ ~existsSync(getIncludePath(Rel(n), document))
       /\ findFilepath(Rel(n), FALSE) = NotFound
  \/ \E m \in Range(ExecAll("libraryIncludePattern", document.text, 1)) :
       findFilepath(Rel(m.g1), TRUE) = NotFound

\* C22: a signature help call on a document with an include directive whose file
\* cannot be found does not raise, and its table has the built-in signatures and
\* the document's own.
C22_MissingIncludeSkipped ==
  (last.called /\ NamesMissingFile(last.document)) =>
    /\ ~last.threw
    /\ \A k \in 1..Len(defaultSigs) : Has(last.allSignatures, defaultSigs[k].key)
    /\ \A k \in 1..Len(LocalSigs) : Has(last.allSignatures, LocalSigs[k].key)

(***************************************************************************)
(* ai_definition.js: go to definition.                                     *)
(***************************************************************************)
\* The first word starting with "#" at or after index i of line lineNum, "" if the
\* rest of the text has none: [^#]* runs over line ends up to it.
RECURSIVE FirstHash(_, _, _)
FirstHash(text, lineNum, i) ==
  IF lineNum > Len(text) THEN ""
  ELSE LET k == FirstIn(text[lineNum], i, HashWords)
       IN IF k # 0 THEN text[lineNum][k] ELSE FirstHash(text, lineNum + 1, 1)

\* determineRegex for a function name, tried at index i of line lineNum:
\* (?<![;].*)(?<!(?:#cs|#comments-start).*)(Func\s+)lookup\s*\((?![^#]*(#ce|#comments-end))
\* The value is the length of group 1, 0 when the expression does not match there.
DefinitionAt(text, lineNum, i, lookupText) ==
  LET l == text[lineNum]
      n == IF i + 1 <= Len(l) /\ l[i] = "Func" /\ l[i + 1] \in Blank
           THEN FirstNotIn(l, i + 1, Blank) ELSE 0
      e == n + Len(lookupText)
      p == IF n # 0 /\ e <= Len(l) /\ Slice(l, n, e - 1) = lookupText
           THEN FirstNotIn(l, e, Blank) ELSE 0
  IN IF /\ p # 0 /\ l[p] = "("
        /\ \A k \in 1..(i - 1) : l[k] \notin {";", "#cs"}
        /\ FirstHash(text, lineNum, p + 1) # "#ce"
     THEN n - i ELSE 0

\* String.prototype.match with the expression of determineRegex: the first match
\* in text order, its line, its index in the line and its group 1; found is FALSE
\* for null.
NoDefinition == [found |-> FALSE, line |-> 0, index |-> 0, g1 |-> 0]
definitionRegex(text, lookupText) ==
  LET hits == {at \in {Pos(k, i) : k \in 1..Len(text), i \in 1..MaxLen} :
                 /\ at.character <= Len(text[at.line])
                 /\ DefinitionAt(text, at.line, at.character, lookupText) # 0}
  IN IF hits = {} THEN NoDefinition
     ELSE LET first == CHOOSE at \in hits : \A other \in hits : BeforeOrEqual(at, other)
          IN [found |-> TRUE, line |-> first.line, index |-> first.character,
              g1 |-> DefinitionAt(text, first.line, first.character, lookupText)]

Location(uri, line, character) == [uri |-> uri, line |-> line, character |-> character]

\* searchScript: the match of the expression in the text of one listed script.
searchScript(script, document, lookupText) ==
  definitionRegex(getIncludeText(getIncludePath(script, document)), lookupText)

\* provideDefinition up to its call of getIncludeScripts: a match in the document
\* is returned at once, otherwise findDefinitionInIncludeFiles starts the walk.
ProvideDefinition(document, lookupText) ==
  /\ definition.stage = "idle"
  /\ LET match == definitionRegex(document.text, lookupText)
     IN IF match.found
        THEN /\ definition' = [stage |-> "returned", document |-> document,
                               lookupText |-> lookupText,
                               result |-> Location(document.fileName, match.line - 1,
                                                   match.index - 1 + match.g1)]
             /\ UNCHANGED walkVars
        ELSE /\ definition' = [stage |-> "walking", document |-> document,
                               lookupText |-> lookupText, result |-> Null]
             /\ EnterWalk(document)
  /\ UNCHANGED <<disk, currentIncludeFiles, includes, last, callVars, paramVars, symVars,
                 lookup, wsVars, diagVars, runVars>>

\* The scripts scriptsToSearch.find reads: those up to the first that matches.
Searched(document, lookupText) ==
  LET hits == {k \in 1..Len(scriptsToSearch) :
                 searchScript(scriptsToSearch[k], document, lookupText).found}
  IN SubSeq(scriptsToSearch, 1, IF hits = {} THEN Len(scriptsToSearch) ELSE Min(hits))

\* findDefinitionInIncludeFiles after the walk, and the rest of provideDefinition:
\* the first listed script that matches is read again and its match located with
\* match[1] undefined; with no such script findDefinitionInIncludeFiles returns
\* null and provideDefinition reads match.found of it, which raises a TypeError.
FindDefinitionInIncludeFiles ==
  /\ definition.stage = "walking" /\ walking = "done"
  /\ LET searched == Searched(definition.document, definition.lookupText)
         match == IF searched = <<>> THEN NoDefinition
                  ELSE searchScript(searched[Len(searched)], definition.document,
                                    definition.lookupText)
     IN IF match.found
        THEN /\ definition' =
                  [definition EXCEPT
                     !.stage = "returned",
                     !.result = Location(getIncludePath(searched[Len(searched)],
                                                        definition.document),
                                         match.line - 1, match.index - 1)]
             /\ reads' = reads \o searched \o <<searched[Len(searched)]>>
        ELSE /\ definition' = [definition EXCEPT !.stage = "raised"]
             /\ reads' = reads \o searched
  /\ UNCHANGED <<root, scriptsToSearch, stack, walking>>
  /\ UNCHANGED <<disk, currentIncludeFiles, includes, last, callVars, paramVars, symVars,
                 lookup, wsVars, diagVars, runVars>>

\* The files of the definition model: a.au3 beside the document declares F, in
\* the open or behind a ";" or inside a block comment, and may include b.au3,
\* which declares G or nothing and may include a.au3 and a library file that
\* is not installed; no file declares H.
DefDisks ==
  {(At(WsDir, FileA) :> ta) @@ (At(WsDir, FileB) :> tb) :
     ta \in {Declares(<<"F">>),
             <<IncludeLine(FileB)>> \o Declares(<<"F">>),
             <<IncludeLine(FileB), <<";">> \o FuncLine("Func", Fn("F"), <<>>)>>,
             <<<<"#cs">>, FuncLine("Func", Fn("F"), <<>>), <<"#ce">>, IncludeLine(FileB)>>},
     tb \in {<<>>, Declares(<<"G">>),
             <<IncludeLine(FileA), LibraryLine(FileName("L"))>> \o Declares(<<"G">>)}}
\* The open document calls F, G and H; it includes a.au3 or nothing and may
\* declare G itself.
DefDocuments ==
  {[fileName |-> At(WsDir, FileName("d1")),
    text |-> list \o local \o <<<<"F", "(", ")">>, <<"G", "(", ")">>, <<"H", "(", ")">>>>] :
     list \in {<<>>, <<IncludeLine(FileA)>>},
     local \in {<<>>, Declares(<<"G">>)}}
DefWords == {Fn("F"), Fn("G"), Fn("H")}

DefInit ==
  /\ disk \in DefDisks
  /\ currentIncludeFiles = <<>>
  /\ includes = <<>>
  /\ last = [document |-> Document(At(WsDir, FileName("d1")), <<>>, <<>>, <<>>, <<"x">>),
             position |-> [line |-> 1, character |-> 0], func |-> Null,
             before |-> <<>>] @@ NoCall
  /\ CallIdle /\ WalkIdle /\ ParamsIdle /\ RestIdle

DefNext ==
  \/ \E document \in DefDocuments, lookupText \in DefWords :
       ProvideDefinition(document, lookupText)
  \/ RelativeStep
  \/ RelativeEnd
  \/ LibraryStep
  \/ Return
  \/ FindDefinitionInIncludeFiles

SpecDefinition == DefInit /\ [][DefNext]_vars

\* The function names a text declares where determineRegex can match them.
Defines(text, lookupText) == definitionRegex(text, lookupText).found
\* The files reachable from a document through quoted includes beside it.
RECURSIVE ReachableFrom(_, _)
ReachableFrom(paths, n) ==
  IF n = 0 THEN paths
  ELSE ReachableFrom(
         paths \cup {At(WsDir, m.g1) :
                       m \in UNION {Range(ExecAll("relativeInclude", disk[path], 1)) :
                                      path \in paths \cap DOMAIN disk}}, n - 1)
Reachable(document) ==
  ReachableFrom({At(WsDir, m.g1) : m \in Range(ExecAll("relativeInclude", document.text, 1))},
                MaxDirectives) \cap DOMAIN disk

\* C23: provideDefinition returns null, without raising, when the looked-up word
\* is defined neither in the document nor in any file reachable through its
\* includes; when the document itself defines the word, the location returned is
\* in the document and no include file has been consulted.
C23_NullWhenUndefinedDocumentFirst ==
  definition.stage \in {"returned", "raised"} =>
    /\ (/\ ~Defines(definition.document.text, definition.lookupText)
        /\ \A path \in Reachable(definition.document) :
             ~Defines(disk[path], definition.lookupText))
         => (definition.stage = "returned" /\ definition.result = Null)
    /\ Defines(definition.document.text, definition.lookupText)
         => /\ definition.stage = "returned"
            /\ definition.result # Null
            /\ definition.result.uri = definition.document.fileName
            /\ reads = <<>> /\ scriptsToSearch = <<>>

(***************************************************************************)
(* extension.js and diagnosticUtils.js: the Au3Check diagnostics.  The      *)
(* checker's output is a sequence of lines; a file is named by its path.    *)
(***************************************************************************)
MaxOutput == 2
\* the checks that start a process or show a message
MaxChecks == 2

Sentinel == "- 0 error(s), 0 warning(s)"
\* parseInt(_, 10) of the numbers the checker writes
Numbers == {"1", "7", "12345"}
parseInt(n) == CASE n = "1" -> 1 [] n = "7" -> 7 [] n = "12345" -> 12345
\* \d{1,4}
UpToFourDigits(n) == n \in Numbers /\ parseInt(n) < 10000

getDiagnosticSeverity(severityString) ==
  IF severityString = "warning" THEN "Warning" ELSE "Error"
getDiagnosticRange(line, position) ==
  LET diagnosticPosition == Pos(parseInt(line) - 1, parseInt(position) - 1)
  IN [start |-> diagnosticPosition, end |-> diagnosticPosition]
Diagnostic(range, description, severity) ==
  [range |-> range, message |-> description, severity |-> severity]

\* OUTPUT_REGEXP in one line of the output, the leftmost match with the longest path:
\* /"(?<scriptPath>.+)"\((?<line>\d{1,4}),(?<position>\d{1,4})\)\s:\s
\*  (?<severity>warning|error):\s(?<description>.+)\r/gm
NoOutputMatch == [found |-> FALSE]
OUTPUT_REGEXP(l) ==
  LET ends == {c \in 3..Len(l) :
                 /\ l[c] = "\"" /\ Len(l) >= c + 13
                 /\ l[c + 1] = "(" /\ UpToFourDigits(l[c + 2]) /\ l[c + 3] = ","
                 /\ UpToFourDigits(l[c + 4]) /\ l[c + 5] = ")" /\ l[c + 6] \in Blank
                 /\ l[c + 7] = ":" /\ l[c + 8] \in Blank /\ l[c + 9] \in {"warning", "error"}
                 /\ l[c + 10] = ":" /\ l[c + 11] \in Blank
                 /\ l[c + 12] # "\r" /\ FirstIn(l, c + 13, {"\r"}) # 0}
      starts == {o \in 1..Len(l) : l[o] = "\"" /\ \E c \in ends : c > o + 1}
  IN IF starts = {} THEN NoOutputMatch
     ELSE LET o == Min(starts)
              c == Max(ends)
          IN [found |-> TRUE, scriptPath |-> Slice(l, o + 1, c - 1), line |-> l[c + 2],
              position |-> l[c + 4], severity |-> l[c + 9],
              description |-> Slice(l, c + 12, FirstIn(l, c + 13, {"\r"}) - 1)]

\* The diagnostics object after the lines from index i on: updateDiagnostics pushes
\* each match to the list of its scriptPath.
RECURSIVE updateDiagnostics(_, _, _)
updateDiagnostics(currentDiagnostics, output, i) ==
  IF i > Len(output) THEN currentDiagnostics
  ELSE LET matches == OUTPUT_REGEXP(output[i])
       IN IF ~matches.found THEN updateDiagnostics(currentDiagnostics, output, i + 1)
          ELSE updateDiagnostics(
                 Put(currentDiagnostics, matches.scriptPath,
                     (IF Has(currentDiagnostics, matches.scriptPath)
                      THEN Get(currentDiagnostics, matches.scriptPath) ELSE <<>>)
                     \o <<Diagnostic(getDiagnosticRange(matches.line, matches.position),
                                     matches.description,
                                     getDiagnosticSeverity(matches.severity))>>),
                 output, i + 1)

\* collection.delete(uri) and collection.set(uri, diagnostics)
Delete(collection, uri) == [u \in DOMAIN collection \ {uri} |-> collection[u]]
SetAll(collection, diagnostics) ==
  [u \in DOMAIN collection \cup Range(Keys(diagnostics)) |->
     IF Has(diagnostics, u) THEN Get(diagnostics, u) ELSE collection[u]]

\* output.includes('- 0 error(s), 0 warning(s)')
includes_Sentinel(output) == \E i \in 1..Len(output) : Sentinel \in Range(output[i])

\* A parse that sets what the output lists whatever else it holds.
SetWhateverElse(output, collection, docURI) ==
  SetAll(collection, updateDiagnostics(<<>>, output, 1))
\* The collection parseAu3CheckOutput leaves.
parseAu3CheckOutput(output, collection, docURI) ==
  IF includes_Sentinel(output) THEN Delete(collection, docURI)
  ELSE SetAll(collection, updateDiagnostics(<<>>, output, 1))

\* The documents the editor shows: a script and a text file.
ScriptUri == <<"a.au3">>
CheckDocuments ==
  {[uri |-> ScriptUri, languageId |-> "autoit"],
   [uri |-> <<"n.txt">>, languageId |-> "plaintext"]}
\* The lines Au3Check writes about a.au3 and the b.au3 it includes.
OutputLine(scriptPath, line, severity, description) ==
  <<"\"">> \o scriptPath \o <<"\"", "(", line, ",", "1", ")", " ", ":", " ", severity, ":", " ">>
    \o description \o <<"\r">>
OutputLines ==
  {ScriptUri \o <<" ", Sentinel, "\r">>,
   OutputLine(ScriptUri, "7", "warning", <<"w">>),
   OutputLine(<<"b.au3">>, "1", "error", <<"e">>)}
\* A second place the check path can be set to; nothing is ever installed there.
OtherPath == [dir |-> "AutoIt3", file |-> <<"Other.exe">>]
CheckPaths == {CheckerPath, OtherPath}

DiagOnly ==
  UNCHANGED <<disk, currentIncludeFiles, includes, last, callVars, walkVars, paramVars,
              symVars, lookup, wsVars, defVars, runVars>>

\* The user edits the settings: config is read anew at every trigger.
ConfigChanged(enableDiagnostics, checkPath) ==
  /\ checker' = [checker EXCEPT !.enableDiagnostics = enableDiagnostics,
                                !.checkPath = checkPath]
  /\ UNCHANGED diagnosticCollection
  /\ DiagOnly

InvalidCheckPath == [message |-> "Invalid Check Path!", checkPath |-> checker.checkPath]
\* runCheckProcess: execFile starts a process with an empty consoleOutput; n tells
\* the processes apart by the order they were started in.
Run(c, document) ==
  [c EXCEPT !.started = @ + 1,
            !.processes = Append(@, [uri |-> document.uri, consoleOutput |-> <<>>,
                                     n |-> c.started + 1])]
\* The editor shows the document again: it is no longer among the closed ones.
Shows(c, document) == [c EXCEPT !.closed = @ \ {document.uri}]

\* checkAutoItCode up to its await, for a save, an open or an editor change: the
\* build with checkPathPrev shows the message when the path differs from the last
\* one found missing, the build with validateCheckPath at every call.
CheckAutoItCode(document) ==
  /\ checker.started + Len(checker.shown) < MaxChecks
  /\ IF ~checker.enableDiagnostics
     THEN diagnosticCollection' = NoDiagnostics /\ checker' = Shows(checker, document)
     ELSE IF document.languageId # "autoit"
     THEN UNCHANGED diagnosticCollection /\ checker' = Shows(checker, document)
     ELSE IF ~existsSync(checker.checkPath)
     THEN /\ checker' =
               IF checker.build = "validateCheckPath"
               THEN [Shows(checker, document) EXCEPT !.shown = Append(@, InvalidCheckPath)]
               ELSE [Shows(checker, document) EXCEPT
                       !.shown = IF checker.checkPath # checker.checkPathPrev
                                 THEN Append(@, InvalidCheckPath) ELSE @,
                       !.checkPathPrev = checker.checkPath]
          /\ UNCHANGED diagnosticCollection
     ELSE /\ checker' = Run(Shows(checker, document), document)
          /\ UNCHANGED diagnosticCollection
  /\ DiagOnly

\* The lines the running processes have written so far.
RECURSIVE InFlight(_)
InFlight(processes) ==
  IF processes = <<>> THEN 0
  ELSE Len(Head(processes).consoleOutput) + InFlight(Tail(processes))

\* checkProcess.stdout 'data': a line is added to the consoleOutput of process k.
StdoutData(k, data) ==
  /\ k \in 1..Len(checker.processes)
  /\ InFlight(checker.processes) < MaxOutput
  /\ checker' = [checker EXCEPT !.processes[k].consoleOutput = Append(@, data)]
  /\ UNCHANGED diagnosticCollection
  /\ DiagOnly

Without(s, k) == SubSeq(s, 1, k - 1) \o SubSeq(s, k + 1, Len(s))
\* The latest started of the checks of each document that have finished, process
\* p being one more of them.
Finished(finished, p) ==
  IF p.uri \in DOMAIN finished /\ finished[p.uri] > p.n THEN finished
  ELSE (p.uri :> p.n) @@ finished
\* checkProcess 'close': the promise resolves and the output is parsed.
ProcessClosed(k) ==
  /\ k \in 1..Len(checker.processes)
  /\ diagnosticCollection' =
       parseAu3CheckOutput(checker.processes[k].consoleOutput, diagnosticCollection,
                           checker.processes[k].uri)
  /\ checker' = [checker EXCEPT
                    !.processes = Without(@, k),
                    !.finished = Finished(@, checker.processes[k]),
                    !.resolved = [uri |-> checker.processes[k].uri,
                                  consoleOutput |-> checker.processes[k].consoleOutput]]
  /\ DiagOnly

\* onDidCloseTextDocument
CloseTextDocument(document) ==
  /\ diagnosticCollection' = Delete(diagnosticCollection, document.uri)
  /\ checker' = [checker EXCEPT !.closed = @ \cup {document.uri}]
  /\ DiagOnly

\* Either build of extension.js is activated, with the checker installed or not.
DiagInit ==
  /\ disk \in {NoFiles, (CheckerPath :> <<>>)}
  /\ currentIncludeFiles = <<>>
  /\ includes = <<>>
  /\ last = [document |-> Document(At(WsDir, FileName("d1")), <<>>, <<>>, <<>>, <<"x">>),
             position |-> [line |-> 1, character |-> 0], func |-> Null,
             before |-> <<>>] @@ NoCall
  /\ CallIdle /\ WalkIdle /\ ParamsIdle /\ SymIdle /\ FindIdle /\ WsIdle /\ DefIdle
  /\ RunIdle
  /\ diagnosticCollection = NoDiagnostics
  /\ checker \in {[NewChecker EXCEPT !.build = b] : b \in {"checkPathPrev", "validateCheckPath"}}

DiagNext ==
  \/ \E enableDiagnostics \in BOOLEAN, checkPath \in CheckPaths :
       ConfigChanged(enableDiagnostics, checkPath)
  \/ WriteFile(CheckerPath)
  \/ UnlinkFile(CheckerPath)
  \/ \E document \in CheckDocuments : CheckAutoItCode(document)
  \/ \E k \in 1..MaxChecks, data \in OutputLines : StdoutData(k, data)
  \/ \E k \in 1..MaxChecks : ProcessClosed(k)
  \/ \E document \in CheckDocuments : CloseTextDocument(document)

SpecDiagnostics == DiagInit /\ [][DiagNext]_vars

CheckWithoutChecker(document) ==
  CheckAutoItCode(document) /\ ~existsSync(checker.checkPath)
\* The message is not repeated for the path it was last shown for.
ShownOnce ==
  checker'.shown # checker.shown =>
    \/ checker.shown = <<>>
    \/ checker.shown[Len(checker.shown)].checkPath # checker.checkPath

\* C25: while the configured check path does not exist, a check trigger starts no
\* checker process and leaves the diagnostics collection unchanged, and triggers
\* with the same invalid path show the error notification only once.
C25_InvalidPathQuietOnce ==
  [][\A document \in CheckDocuments :
       CheckWithoutChecker(document)
         => /\ checker'.started = checker.started
            /\ checker'.processes = checker.processes
            /\ diagnosticCollection' = diagnosticCollection
            /\ ShownOnce]_vars

\* The extension activated with the checker installed and the default settings,
\* which nothing changes: every open, save or editor change of the script starts
\* a checker process.  The two builds differ only where the check path is missing.
ChecksInit ==
  /\ disk = (CheckerPath :> <<>>)
  /\ currentIncludeFiles = <<>>
  /\ includes = <<>>
  /\ last = [document |-> Document(At(WsDir, FileName("d1")), <<>>, <<>>, <<>>, <<"x">>),
             position |-> [line |-> 1, character |-> 0], func |-> Null,
             before |-> <<>>] @@ NoCall
  /\ CallIdle /\ WalkIdle /\ ParamsIdle /\ SymIdle /\ FindIdle /\ WsIdle /\ DefIdle
  /\ RunIdle
  /\ diagnosticCollection = NoDiagnostics
  /\ checker = NewChecker

ChecksNext ==
  \/ \E document \in CheckDocuments : CheckAutoItCode(document)
  \/ \E k \in 1..MaxChecks, data \in OutputLines : StdoutData(k, data)
  \/ \E k \in 1..MaxChecks : ProcessClosed(k)
  \/ \E document \in CheckDocuments : CloseTextDocument(document)

SpecChecks == ChecksInit /\ [][ChecksNext]_vars

\* The diagnostics the collection shows for a document.
ShownFor(collection, uri) == IF uri \in DOMAIN collection THEN collection[uri] ELSE <<>>

\* A check of the document of process k that was started after k has finished.
FinishesLate(k) ==
  /\ checker.processes[k].uri \in DOMAIN checker.finished
  /\ checker.finished[checker.processes[k].uri] > checker.processes[k].n

\* C38: when two checks of the same document are in flight at once, the
\* diagnostics finally shown for it are those produced by the check that was
\* started last, whatever order the two processes finish in: a process that
\* finishes after a check of its document started later has finished does not
\* change what is shown for the document.
C38_LastStartedCheckShown ==
  [][\A k \in 1..Len(checker.processes) :
       (ProcessClosed(k) /\ FinishesLate(k))
         => ShownFor(diagnosticCollection', checker.processes[k].uri)
              = ShownFor(diagnosticCollection, checker.processes[k].uri)]_vars

\* C39: after a document is closed the collection holds no entry for it until it
\* is opened or checked again, even if a check of it was in flight when it was
\* closed.
C39_ClosedDocumentStaysClear ==
  \A uri \in checker.closed : uri \notin DOMAIN diagnosticCollection

\* The lines of a text that define name, and the entry built from the last of them.
DefinitionsOf(text, name) ==
  {k \in 1..Len(text) : functionDefinitionRegex(text[k]).found
                        /\ functionDefinitionRegex(text[k]).g2 = name}
LastDefinition(text, name, fileName) ==
  buildFunctionSignature(functionDefinitionRegex(text[Max(DefinitionsOf(text, name))]),
                         text, fileName).functionObject
\* The one file the call harvested, when the text holds a single quoted include
\* and nothing else to harvest.
OnlyInclude ==
  IF /\ last.called /\ last.rebuilt /\ ~last.threw
     /\ Len(LastIncludesCheck) = 1
     /\ ExecAll("libraryIncludePattern", LastText, 1) = <<>>
  THEN {Rel(LastIncludesCheck[1])} ELSE {}

MaxScanLines == 5

\* Block comment markers, bare and with a remark that names a variable, and a
\* declaration.
BlockLines ==
  {<<"#cs">>, <<"#cs", " ", "$", "y">>, <<"#ce">>, <<"Local", " ">> \o VarX}
\* A constant declared over a continuation, a line of the run with a variable and
\* a marker, a last line of a run without a variable, and a plain declaration.
ContinuationLines ==
  {<<"Global", " ", "Const", " ", "$", "a", " ", "=", " ", "_">>,
   <<" ", "$", "c", " ", "+", " ", "_">>,
   <<" ", "1">>,
   <<"Local", " ", "$", "b">>}
ScanPalettes == {BlockLines, ContinuationLines}

\* A line is typed at the end of the document.
TypeLine(line) ==
  /\ ~symbols.ran /\ Len(openDoc) < MaxScanLines
  /\ \E palette \in ScanPalettes :
       line \in palette /\ \A k \in 1..Len(openDoc) : openDoc[k] \in palette
  /\ openDoc' = Append(openDoc, line)
  /\ UNCHANGED <<symbols, earlier, processedSymbols>>
  /\ SymOnly

ScanInit == SigIdle /\ CallIdle /\ WalkIdle /\ ParamsIdle /\ RestIdle

ScanNext ==
  \/ \E line \in UNION ScanPalettes : TypeLine(line)
  \/ ProvideDocumentSymbols

SpecScan == ScanInit /\ [][ScanNext]_vars

\* Line k is a start marker line, or comes after one with no end marker line
\* between them: the lines from a start marker to the next end marker, both
\* included.
Commented(docText, k) ==
  \E j \in 1..k :
    /\ commentStartRegex(docText[j])
    /\ \A e \in (j + 1)..(k - 1) : ~commentEndRegex(docText[e])
\* The symbols a pass extracted from line k.
ExtractedFrom(result, k) == {j \in 1..Len(result) : result[j].range.start.line = k}

\* C27: after a pass, no symbol comes from a block-comment start marker line or
\* from any line after it up to and including the next end marker line, and the
\* lines after the end marker yield their symbols again.
C27_NothingFromBlockComment ==
  symbols.ran =>
    \A k \in 1..Len(openDoc) :
      IF Commented(openDoc, k) THEN ExtractedFrom(symbols.result, k) = {}
      ELSE \A v \in VariableTokens(openDoc[k]) :
             \E j \in 1..Len(symbols.result) : symbols.result[j].name = v

\* The block comments open before line k when the markers nest: a start marker
\* opens one, an end marker closes the innermost.
RECURSIVE DepthBefore(_, _)
DepthBefore(docText, k) ==
  IF k = 1 THEN 0
  ELSE LET d == DepthBefore(docText, k - 1)
       IN IF commentStartRegex(docText[k - 1]) THEN d + 1
          ELSE IF commentEndRegex(docText[k - 1]) /\ d > 0 THEN d - 1
          ELSE d
\* Line k lies between the end marker of an inner block and the end marker of
\* the block around it.
BetweenInnerAndOuterEnd(docText, k) ==
  /\ DepthBefore(docText, k) > 0
  /\ ~commentStartRegex(docText[k]) /\ ~commentEndRegex(docText[k])
  /\ \E e \in 1..(k - 1) : commentEndRegex(docText[e]) /\ DepthBefore(docText, e) > 1
  /\ \E e \in (k + 1)..Len(docText) : commentEndRegex(docText[e])

\* C29: with nested block comments the lines between the inner end marker and the
\* outer end marker are still commented out: a pass extracts no symbol from them.
C29_NestedCommentStaysClosed ==
  symbols.ran =>
    \A k \in 1..Len(openDoc) :
      BetweenInnerAndOuterEnd(openDoc, k) => ExtractedFrom(symbols.result, k) = {}

\* The line ends in a continuation marker: a blank and an underscore last.
EndsInMarker(l) == Len(l) >= 2 /\ l[Len(l)] = "_" /\ l[Len(l) - 1] \in Blank
\* The first line of the continuation run line k belongs to; k itself when the
\* line before it does not end in a marker.
RECURSIVE RunStart(_, _)
RunStart(docText, k) ==
  IF k > 1 /\ EndsInMarker(docText[k - 1]) THEN RunStart(docText, k - 1) ELSE k
\* The kind a line's own prefix gives.
OwnKind(l) ==
  LET words == SelectSeq(l, LAMBDA w : w \notin Blank)
      prefix == IF words # <<>> /\ words[1] \in {"Local", "Global"} THEN Tail(words) ELSE words
  IN IF prefix # <<>> /\ prefix[1] = "Const" THEN "Constant"
     ELSE IF prefix # <<>> /\ prefix[1] = "Enum" THEN "Enum"
     ELSE "Variable"

\* C28: after a pass, the kind of every variable symbol is the kind the prefix of
\* the first line of its line's continuation run gives: the line's own prefix for
\* a line that does not follow a marker, the kind of the run's first line for
\* every line of a run, and never the kind of a run that has ended.
C28_KindOfOwnRun ==
  symbols.ran =>
    \A j \in 1..Len(symbols.result) :
      symbols.result[j].kind \in VariableKinds =>
        symbols.result[j].kind =
          OwnKind(openDoc[RunStart(openDoc, symbols.result[j].range.start.line)])

\* C30: during a walk a bracketed include of a library file named in DEFAULT_UDFS
\* is skipped entirely: the file is never listed in scriptsToSearch and never read
\* to be walked.  (No quoted include of the walk's documents and files names such
\* a file, so one can only be reached through a bracketed include.)
C30_DefaultLibrarySkipped ==
  \A path \in Range(scriptsToSearch) \cup Range(reads) :
    RemoveFirst(path.file, Au3) \notin DEFAULT_UDFS
(***************************************************************************)
(* commands: functionTraceAdd, on the text of the active editor.  A line   *)
(* break the command writes ("\r", "\r\n") ends a line of the text.        *)
(***************************************************************************)
MaxTraceLines == 6

\* The ConsoleWrite statement appendTrace writes for functionName.
traceStatement(functionName) ==
  <<"ConsoleWrite('@@ (">> \o functionName \o <<"()' & @CR) \t", ";### Trace Function'">>

\* sPattern on a line, /()(\bfunc\b\s+([^)\s]+)\(.*\))/gi: the word func, blanks,
\* a run without ")" and blanks that gives back up to its last "(", and the
\* rest up to the last ")" of the line.  g3 is the name, index the last index.
sPattern(l) ==
  LET hits == {i \in 1..Len(l) :
                 /\ Lower(l[i]) = "func" /\ i < Len(l) /\ l[i + 1] \in Blank
                 /\ LET n == After(l, i + 1, Blank)
                        r == After(l, n, (Range(l) \ Blank) \ {")"})
                        p == LastInFrom(l, r - 1, {"("})
                    IN p > n /\ LastIn(l, {")"}) > p}
  IN IF hits = {} THEN [found |-> FALSE, g3 |-> <<>>, index |-> 0]
     ELSE LET i == Min(hits)
              n == After(l, i + 1, Blank)
              r == After(l, n, (Range(l) \ Blank) \ {")"})
          IN [found |-> TRUE, g3 |-> Slice(l, n, LastInFrom(l, r - 1, {"("}) - 1),
              index |-> LastIn(l, {")"})]

\* text.replaceAll(sPattern, appendTrace): p1 is the empty first group, so the
\* FunctionTraceSkip test never holds; every match is followed by "\r\t" and the
\* statement, and what followed the match follows the statement.
RECURSIVE appendTrace(_)
appendTrace(text) ==
  IF text = <<>> THEN <<>>
  ELSE LET l == Head(text)
           m == sPattern(l)
       IN (IF m.found
           THEN <<Slice(l, 1, m.index),
                  <<"\t">> \o traceStatement(m.g3) \o Slice(l, m.index + 1, Len(l))>>
           ELSE <<l>>) \o appendTrace(Tail(text))

\* traceStatementPattern on a line, /ConsoleWrite\('@@ \(.+;### Trace Function'/:
\* where the match starts and ends, 0 for no match.
TraceStart(l) ==
  LET hits == {c \in 1..Len(l) :
                 /\ l[c] = "ConsoleWrite('@@ ("
                 /\ \E e \in (c + 2)..Len(l) : l[e] = ";### Trace Function'"}
  IN IF hits = {} THEN 0 ELSE Min(hits)
TraceEnd(l) == LastIn(l, {";### Trace Function'"})
IsBlank(l) == \A k \in 1..Len(l) : l[k] \in Blank

\* text.replace(traceStatementPattern, '\r\n'), the expression
\* /\s*ConsoleWrite\('@@ \(.+;### Trace Function'/ without the g flag: the FIRST
\* statement of the text, with the blanks and line breaks before it, becomes one
\* line break.
removeFirstTrace(text) ==
  LET lines == {k \in 1..Len(text) : TraceStart(text[k]) # 0}
  IN IF lines = {} THEN text
     ELSE LET k == Min(lines)
              l == text[k]
              before == Slice(l, 1, TraceStart(l) - 1)
              rest == Slice(l, TraceEnd(l) + 1, Len(l))
              kept == {j \in 1..(k - 1) : ~IsBlank(text[j])}
          IN IF ~IsBlank(before)
             THEN Slice(text, 1, k - 1) \o <<TrimRight(before), rest>>
                    \o Slice(text, k + 1, Len(text))
             ELSE IF kept = {}
             THEN <<<<>>, rest>> \o Slice(text, k + 1, Len(text))
             ELSE Slice(text, 1, Max(kept) - 1) \o <<TrimRight(text[Max(kept)]), rest>>
                    \o Slice(text, k + 1, Len(text))

\* functionTraceAdd: searchAndReplace(traceStatementPattern), then the edit that
\* replaces the text by text.replaceAll(sPattern, appendTrace).
functionTraceAdd(text) == appendTrace(removeFirstTrace(text))

\* The documents the command is run on: up to three lines, each a declaration
\* or the end of a function.
TraceLines ==
  {FuncLine("Func", Fn("F"), <<>>), FuncLine("func", Fn("G"), VarX), <<"EndFunc">>}
TraceDocuments == UNION {[1..n -> TraceLines] : n \in 0..3}

TraceInit ==
  /\ openDoc \in TraceDocuments
  /\ symbols = NotRun /\ earlier = NotRun /\ processedSymbols = {}
  /\ SigIdle /\ CallIdle /\ WalkIdle /\ ParamsIdle
  /\ FindIdle /\ WsIdle /\ DefIdle /\ DiagIdle /\ RunIdle

\* The add-trace command runs on the active editor.
FunctionTraceAdd ==
  /\ Len(openDoc) <= MaxTraceLines
  /\ openDoc' = functionTraceAdd(openDoc)
  /\ UNCHANGED <<symbols, earlier, processedSymbols>>
  /\ SymOnly

TraceNext == FunctionTraceAdd

SpecTrace == TraceInit /\ [][TraceNext]_vars

\* The lines of the text with a function definition, and those with a trace
\* statement.
DefinitionLines(text) == {k \in 1..Len(text) : sPattern(text[k]).found}
StatementLines(text) == {k \in 1..Len(text) : TraceStart(text[k]) # 0}
\* The trace statements of the text, each as often as it is there.
Statements(text) ==
  [k \in StatementLines(text) |->
     Slice(text[k], TraceStart(text[k]), TraceEnd(text[k]))]
SameStatements(s, u) ==
  \A v \in Range(s) \cup Range(u) : Count(s, v) = Count(u, v)
AsSeq(f) ==
  [i \in 1..Cardinality(DOMAIN f) |->
     f[CHOOSE k \in DOMAIN f : Cardinality({j \in DOMAIN f : j < k}) = i - 1]]

\* C37: after the command has run, every function definition is followed by a
\* trace statement and the text has no other trace statement, and running the
\* command once more leaves the same trace statements.
C37_OneTracePerFunction ==
  [][/\ \A k \in DefinitionLines(openDoc') : k + 1 \in StatementLines(openDoc')
     /\ Cardinality(StatementLines(openDoc')) = Cardinality(DefinitionLines(openDoc'))
     /\ SameStatements(AsSeq(Statements(functionTraceAdd(openDoc'))),
                       AsSeq(Statements(openDoc')))]_vars


\* ---------------------------------------------------------------------------
\* Running and restarting the open file's script (ai_commands.js).  Every run is
\* of the active document with the same command line, so the thisFile and
\* processCommand tests of findRunner hold of every entry; the interpreter is in
\* place (runner.pid is set), the kill shortcut is bound, and
\* multiOutputFinishedTimeout is 0, so cleanup sets no timer.

\* the runs started or promised by a command or an exit listener
MaxRuns == 4

RunOnly ==
  UNCHANGED <<sigVars, callVars, walkVars, paramVars, symVars, lookup, wsVars, defVars,
              diagVars>>

\* findRunner({ status }): the last entry of the list with that status, or 0
findRunner(list, status) ==
  IF \E k \in 1..Len(list) : list[k].status = status
  THEN Max({k \in 1..Len(list) : list[k].status = status}) ELSE 0

\* runners.cleanup: of the finished entries, ordered by endTime descending, those
\* from position multiOutputMaxFinished on are deleted from the list.
RECURSIVE Kept(_, _)
Kept(list, r) ==
  IF list = <<>> THEN <<>>
  ELSE LET e == Head(list)
           later == Cardinality({k \in 1..Len(r.list) :
                                   ~r.list[k].status /\ r.list[k].endTime > e.endTime})
       IN  IF ~e.status /\ later >= r.multiOutputMaxFinished
           THEN Kept(Tail(list), r) ELSE <<e>> \o Kept(Tail(list), r)
cleanup(r) == [r EXCEPT !.list = Kept(r.list, r)]

\* procRunner: with bAiOutReuse the info of the last finished run is taken over
\* under the new process, which goes to the end of the Map; else a new id and info.
procRunner(r) ==
  LET prev == IF r.reuse THEN findRunner(r.list, FALSE) ELSE 0
      process == [runner |-> r.spawned + 1, status |-> TRUE, endTime |-> 0,
                  listeners |-> 0, killed |-> FALSE,
                  id |-> IF prev # 0 THEN r.list[prev].id ELSE r.id + 1]
  IN  [r EXCEPT !.id = IF prev # 0 THEN @ ELSE @ + 1,
                !.spawned = @ + 1,
                !.list = IF prev # 0 THEN Append(Without(@, prev), process)
                         ELSE Append(@, process)]

\* The runs started, being saved, or to be started by a listener at an exit.
RECURSIVE Listening(_)
Listening(list) ==
  IF list = <<>> THEN 0 ELSE Head(list).listeners + Listening(Tail(list))
Promised(r) == r.spawned + r.saving + Listening(r.list)

\* runScript up to thisDoc.save(): the run waits for the save.
runScript(r) == [r EXCEPT !.saving = @ + 1]

\* The run command.
RunScript ==
  /\ Promised(runners) < MaxRuns
  /\ runners' = runScript(runners)
  /\ RunOnly

\* thisDoc.save().then: the saved file is run.
Saved ==
  /\ runners.saving > 0
  /\ runners' = procRunner([runners EXCEPT !.saving = @ - 1])
  /\ RunOnly

\* killScript: the last running entry is sent the kill signal.
killScript(r) ==
  LET k == findRunner(r.list, TRUE)
  IN  IF k = 0 THEN r ELSE [r EXCEPT !.list[k].killed = TRUE]

\* restartScript: with a run of the open file running, one more exit listener is
\* put on its process and the script is killed; else the script is run.
RestartScript ==
  /\ Promised(runners) < MaxRuns
  /\ LET k == findRunner(runners.list, TRUE)
     IN  runners' = IF k # 0
                    THEN killScript([runners EXCEPT !.list[k].listeners = @ + 1])
                    ELSE runScript(runners)
  /\ RunOnly

\* The process of entry k exits, killed or by itself: procRunner's exit listener
\* marks the entry finished and cleans up, then every listener restartScript put
\* on the process calls runScript.
Exit(k) ==
  /\ k \in 1..Len(runners.list)
  /\ runners.list[k].status
  /\ runners' =
       [cleanup([runners EXCEPT !.exits = @ + 1,
                                !.list[k] = [@ EXCEPT !.status = FALSE,
                                                      !.endTime = runners.exits + 1,
                                                      !.listeners = 0]])
          EXCEPT !.saving = @ + runners.list[k].listeners]
  /\ RunOnly

\* The settings multiOutput with multiOutputReuseOutput, and multiOutputMaxFinished.
RunInit ==
  /\ runners \in {[NoRunners EXCEPT !.reuse = reuse, !.multiOutputMaxFinished = finished] :
                    reuse \in BOOLEAN, finished \in {0, 2}}
  /\ SigIdle /\ CallIdle /\ WalkIdle /\ ParamsIdle
  /\ SymIdle /\ FindIdle /\ WsIdle /\ DefIdle /\ DiagIdle

RunNext ==
  \/ RunScript
  \/ Saved
  \/ RestartScript
  \/ \E k \in 1..MaxRuns : Exit(k)

SpecRun == RunInit /\ [][RunNext]_vars

\* C40: however many times restartScript is invoked while a run of the open
\* file's script is still running, the new run is started only after the old
\* process has exited, and exactly one new run is started: the restart itself
\* starts and promises none, and the exit of a process that was being restarted
\* calls runScript once.
C40_RestartRunsOnce ==
  [][/\ (RestartScript /\ findRunner(runners.list, TRUE) # 0)
          => runners'.spawned = runners.spawned /\ runners'.saving = runners.saving
     /\ \A k \in 1..Len(runners.list) :
          (Exit(k) /\ runners.list[k].listeners > 0)
            => runners'.saving = runners.saving + 1]_vars

====
